---- MODULE Spec2Model ----
(***************************************************************************)
(* A model of CodeAtlas: the diagram sanitizer/renderer and history store  *)
(* (src/src/core/diagram.py), the repository loader                        *)
(* (src/src/core/repository.py), and the session state file                *)
(* (src/src/ui/app.py, src/src/config.py).                                 *)
(*                                                                         *)
(* Text is modelled as a sequence of characters, each character a string   *)
(* of length one, so that the string functions of the code (strip, split,  *)
(* startswith, count, the regular expressions) are computed character by   *)
(* character.  The backquote character, which the TLA+ lexer does not      *)
(* accept inside a string, is written as the atom "BQ".                    *)
(***************************************************************************)
EXTENDS Integers, Sequences, FiniteSets, TLC

VARIABLES
    dot_in,         \* the text an operation of the diagram pipeline is called with
    dot_mid,        \* the result of the first of two chained calls
    dot_out,        \* the result of the (last) call
    dot_op,         \* which operation has run: "none", "prepare", "prepare2", ...
    diagrams_dir,   \* the diagrams directory: file name -> content
    clock,          \* datetime.now(), in seconds
    render_call,    \* the call of render (or of the MCP tool) that has run
    html,           \* what that call returned
    session_file,   \* .session_state.json: whether it exists, and the dict in it
    config,         \* the global Config instance
    ui_op,          \* the UI handler that ran last
    saved_keys,     \* the keys that handler passed to save_session_state
    pending_run,    \* the run of process_pending_request, between its two saves
    dl_url,         \* the URL _download_github_repo is called with
    dl_pc,          \* where that call is: "idle", "requesting" or "done"
    dl_log,         \* the requests it has sent, each with the response to it
    dl_result,      \* what it returned
    zip_archive,    \* the archive _process_zip is called with
    zip_pc,         \* "idle" before the call, "done" after it
    zip_context,    \* the context it returned
    zip_stats,      \* the stats it returned
    writers,        \* the concurrent calls of _save_diagram, each where it is
    history_list    \* what get_history returned

textVars == <<dot_in, dot_mid, dot_out, dot_op>>
renderVars == <<diagrams_dir, clock, render_call, html>>
sessionVars == <<session_file, config, ui_op, saved_keys, pending_run>>
downloadVars == <<dl_url, dl_pc, dl_log, dl_result>>
zipVars == <<zip_archive, zip_pc, zip_context, zip_stats>>
historyVars == <<writers, history_list>>

vars ==
    <<dot_in, dot_mid, dot_out, dot_op, diagrams_dir, clock, render_call, html,
      session_file, config, ui_op, saved_keys, pending_run,
      dl_url, dl_pc, dl_log, dl_result,
      zip_archive, zip_pc, zip_context, zip_stats, writers, history_list>>

\* what the calls of the diagram pipeline leave alone
outsideDiagram == <<sessionVars, downloadVars, zipVars, historyVars>>
\* what the handlers of the UI leave alone
outsideSession == <<textVars, renderVars, downloadVars, zipVars, historyVars>>

\* what a download leaves alone
outsideDownload == <<textVars, renderVars, sessionVars, zipVars, historyVars>>

\* what _process_zip leaves alone
outsideZip == <<textVars, renderVars, sessionVars, downloadVars, historyVars>>

\* what concurrent calls of _save_diagram leave alone
outsideHistory ==
    <<textVars, render_call, html, history_list, sessionVars, downloadVars, zipVars>>

\* what the loader leaves alone
outsideLoader ==
    <<textVars, renderVars, sessionVars, historyVars, zip_pc, zip_context, zip_stats>>

\* what the calls of the MCP tools and of start_analysis leave alone
outsideInput ==
    <<dot_in, clock, html, config, pending_run, dl_url, dl_pc, dl_result,
      zipVars, historyVars>>

\* what get_history leaves alone
outsideListing ==
    <<textVars, diagrams_dir, clock, html, writers, sessionVars, downloadVars, zipVars>>

-----------------------------------------------------------------------------
(* Characters and Python's string functions.                               *)

BQ == "BQ"
NL == "\n"
QUOTE == "\""

\* str.strip()/rstrip() without arguments remove whitespace
Whitespace == {" ", NL, "\t"}

\* F(x), with x evaluated once and handed to F as a value: the model checker
\* evaluates the argument of an operator anew each time the operator uses it
Bind(x, F(_)) == CHOOSE r \in {F(v) : v \in {x}} : TRUE

MinOf(S) == Bind(S, LAMBDA T : CHOOSE m \in T : \A n \in T : m <= n)
MaxOf(S) == 0 - MinOf({0 - n : n \in S})

Take(s, n) == SubSeq(s, 1, IF n < Len(s) THEN n ELSE Len(s))
Drop(s, n) == SubSeq(s, n + 1, Len(s))

StartsWithAt(s, p, i) ==
    /\ i + Len(p) - 1 <= Len(s)
    /\ SubSeq(s, i, i + Len(p) - 1) = p

StartsWith(s, p) == StartsWithAt(s, p, 1)

EndsWith(s, p) ==
    /\ Len(p) <= Len(s)
    /\ SubSeq(s, Len(s) - Len(p) + 1, Len(s)) = p

\* the positions at which p occurs in s
Occurrences(s, p) == {i \in 1..(Len(s) - Len(p) + 1) : StartsWithAt(s, p, i)}

\* Python's `p in s`
Contains(s, p) == Occurrences(s, p) # {}

\* s.count(c) for a single character c
CountChar(s, c) == Cardinality({i \in 1..Len(s) : s[i] = c})

LStrip(s) ==
    Bind({i \in 1..Len(s) : s[i] \notin Whitespace}, LAMBDA keep :
         IF keep = {} THEN <<>> ELSE SubSeq(s, MinOf(keep), Len(s)))

RStrip(s) ==
    Bind({i \in 1..Len(s) : s[i] \notin Whitespace}, LAMBDA keep :
         IF keep = {} THEN <<>> ELSE SubSeq(s, 1, MaxOf(keep)))

Strip(s) == Bind(RStrip(s), LStrip)

\* s.split(sep): the parts between the non-overlapping occurrences of sep,
\* found left to right; always at least one part
RECURSIVE Split(_, _)
Split(s, sep) ==
    IF ~Contains(s, sep) THEN <<s>>
    ELSE Bind(MinOf(Occurrences(s, sep)), LAMBDA i :
         Bind(Drop(s, i - 1 + Len(sep)), LAMBDA rest :
              <<SubSeq(s, 1, i - 1)>> \o Split(rest, sep)))

\* sep.join(parts)
RECURSIVE Join(_, _)
Join(parts, sep) ==
    IF parts = <<>> THEN <<>>
    ELSE IF Len(parts) = 1 THEN parts[1]
    ELSE Bind(Tail(parts), LAMBDA rest : parts[1] \o sep \o Join(rest, sep))

\* the concatenation of a sequence of texts
RECURSIVE Scan(_, _)
\* How re.sub and re.findall scan a text: `ends` gives, for each position, the
\* position after the match that starts there (0 when none starts there);
\* the result is the starts of the matches found from position i on, left to
\* right, each search resuming where the last match ended
Scan(ends, i) ==
    Bind({j \in DOMAIN ends : j >= i /\ ends[j] > 0}, LAMBDA starts :
         IF starts = {} THEN <<>>
         ELSE Bind(MinOf(starts), LAMBDA j : <<j>> \o Scan(ends, ends[j])))

RECURSIVE Flatten(_)
Flatten(parts) ==
    IF parts = <<>> THEN <<>>
    ELSE Bind(Tail(parts), LAMBDA rest : Head(parts) \o Flatten(rest))

\* re.sub(pattern, "", s): s without the matches Scan finds
RemoveMatches(s, ends) ==
    Bind(Scan(ends, 1), LAMBDA starts :
    Bind(Len(starts), LAMBDA m :
         Flatten([k \in 1..(m + 1) |->
                     SubSeq(s, IF k = 1 THEN 1 ELSE ends[starts[k - 1]],
                               IF k = m + 1 THEN Len(s) ELSE starts[k] - 1)])))

\* the sequences of at most n elements of S
SeqsUpTo(S, n) == UNION {[1..k -> S] : k \in 0..n}

-----------------------------------------------------------------------------
(* DiagramGenerator._prepare_dot                                           *)

Fence == <<BQ, BQ, BQ>>
KwGraph == <<"g", "r", "a", "p", "h">>
KwDigraph == <<"d", "i">> \o KwGraph
WrapperOpen == KwDigraph \o <<" ", "G", " ", "{", NL>>
WrapperClose == <<NL, "}">>

\* lines 140-146: drop the first line, and the last one if it is a bare fence
RemoveFences(stripped) ==
    IF StartsWith(stripped, Fence)
    THEN Bind(Split(stripped, <<NL>>), LAMBDA lines0 :
         Bind(IF StartsWith(lines0[1], Fence) THEN Tail(lines0) ELSE lines0,
              LAMBDA lines1 :
                  Join(IF lines1 # <<>> /\ Strip(lines1[Len(lines1)]) = Fence
                       THEN SubSeq(lines1, 1, Len(lines1) - 1)
                       ELSE lines1,
                       <<NL>>)))
    ELSE stripped

\* as EnsureWrapper, with the declaration and the content on one line
EnsureWrapperInline(s) ==
    IF ~Contains(s, KwDigraph) /\ ~Contains(s, KwGraph)
    THEN KwDigraph \o <<" ", "G", " ", "{", " ">> \o s \o <<" ", "}">>
    ELSE s

\* lines 149-150
EnsureWrapper(s) ==
    IF ~Contains(s, KwDigraph) /\ ~Contains(s, KwGraph)
    THEN WrapperOpen \o s \o WrapperClose
    ELSE s

PrepareDot(dot_source) ==
    Bind(Strip(dot_source), LAMBDA stripped :
    Bind(RemoveFences(stripped), EnsureWrapper))

-----------------------------------------------------------------------------
(* DiagramGenerator._sanitize_dot                                          *)

Arrow == <<"-", ">">>
KwError == <<"E", "r", "r", "o", "r">>
RateLimitMarkers ==
    { <<"4", "2", "9">>,
      <<"R", "E", "S", "O", "U", "R", "C", "E", "_",
        "E", "X", "H", "A", "U", "S", "T", "E", "D">>,
      <<"q", "u", "o", "t", "a">> }

\* line 157: an error response instead of a diagram
IsRateLimited(dot_source) ==
    /\ Contains(dot_source, KwError)
    /\ \E x \in RateLimitMarkers : Contains(dot_source, x)

\* line 173: re.sub(r"<[^>]+>", "", line); a match starts at a '<' whose next
\* '>' is at least two characters further on, and ends at that '>'
TagEnd(s, i) ==
    IF s[i] # "<" THEN 0
    ELSE Bind({j \in (i + 1)..Len(s) : s[j] = ">"}, LAMBDA closes :
         IF closes # {} /\ MinOf(closes) >= i + 2 THEN MinOf(closes) + 1 ELSE 0)

StripTags(s) == RemoveMatches(s, [i \in 1..Len(s) |-> TagEnd(s, i)])

\* line 166: blank lines and comment lines are copied unchanged
IsPassthrough(line) ==
    Bind(Strip(line), LAMBDA stripped :
        \/ stripped = <<>>
        \/ StartsWith(stripped, <<"/", "/">>)
        \/ StartsWith(stripped, <<"#">>))

\* line 170
BraceDelta(line) == CountChar(line, "{") - CountChar(line, "}")

\* line 178, second disjunct: re.match(r".*->\s*$", stripped)
MatchesTrailingArrow(stripped) ==
    \E i \in Occurrences(stripped, Arrow) :
        \A j \in (i + 2)..Len(stripped) : stripped[j] \in Whitespace

\* lines 178-183: the line is an incomplete edge
IsIncompleteEdge(stripped) ==
    \/ EndsWith(stripped, Arrow)
    \/ MatchesTrailingArrow(stripped)
    \/ /\ Contains(stripped, Arrow)
       /\ ~EndsWith(stripped, <<";">>)
       /\ ~Contains(stripped, <<"[">>)
       /\ Bind(Split(stripped, Arrow), LAMBDA parts :
               Len(parts) = 2 /\ Strip(parts[2]) = <<>>)

\* line 176, for the line at 0-based index i of n lines
IsLastFew(i, n) == i >= n - 3

\* lines 185-186: `stripped` is the strip of the line as read, `line` the
\* line after the tags were removed
FixQuotes(stripped, line) ==
    IF CountChar(stripped, QUOTE) % 2 = 1
    THEN RStrip(line) \o <<QUOTE, "]", ";">>
    ELSE line

\* lines 164-188: what the loop appends for the line at 0-based index i;
\* <<>> when the line is dropped, else the one line appended
SanitizedLine(lines, i) ==
    Bind(lines[i + 1], LAMBDA line :
    Bind(Strip(line), LAMBDA stripped :
    Bind(StripTags(line), LAMBDA tagless :
        IF IsPassthrough(line) THEN <<line>>
        ELSE IF IsLastFew(i, Len(lines))
             THEN IF IsIncompleteEdge(stripped) THEN <<>>
                  ELSE <<FixQuotes(stripped, tagless)>>
             ELSE <<tagless>>)))

RECURSIVE SanitizeLoop(_, _)
\* the lines appended to `sanitized` for the lines of index i and above
SanitizeLoop(lines, i) ==
    IF i >= Len(lines) THEN <<>>
    ELSE Bind(i + 1, LAMBDA j : SanitizedLine(lines, i) \o SanitizeLoop(lines, j))

RECURSIVE BraceCount(_)
\* brace_count after the loop: the comment and blank lines are not counted
BraceCount(lines) ==
    IF lines = <<>> THEN 0
    ELSE Bind(Tail(lines), LAMBDA rest :
         (IF IsPassthrough(Head(lines)) THEN 0 ELSE BraceDelta(Head(lines)))
         + BraceCount(rest))

Repeat(c, n) == [i \in 1..n |-> c]

\* lines 160-196, for a text that is not an error response
SanitizeText(dot_source) ==
    Bind(Split(dot_source, <<NL>>), LAMBDA lines :
    Bind(SanitizeLoop(lines, 0), LAMBDA sanitized :
    Bind(BraceCount(lines), LAMBDA brace_count :
        IF brace_count > 0
        THEN Join(sanitized, <<NL>>) \o <<NL>> \o Repeat("}", brace_count)
        ELSE Join(sanitized, <<NL>>))))

\* _sanitize_dot: raises ValueError on an error response
SanitizeDot(dot_source) ==
    IF IsRateLimited(dot_source)
    THEN [raised |-> TRUE, text |-> <<>>]
    ELSE [raised |-> FALSE, text |-> SanitizeText(dot_source)]

-----------------------------------------------------------------------------
(* LayoutOptions and DiagramGenerator._apply_layout                        *)

Lower == {"a", "b", "c", "d", "e", "f", "g", "h", "i", "j", "k", "l", "m",
          "n", "o", "p", "q", "r", "s", "t", "u", "v", "w", "x", "y", "z"}
Upper == {"A", "B", "C", "D", "E", "F", "G", "H", "I", "J", "K", "L", "M",
          "N", "O", "P", "Q", "R", "S", "T", "U", "V", "W", "X", "Y", "Z"}
Digits == {"0", "1", "2", "3", "4", "5", "6", "7", "8", "9"}

\* the characters \w matches
WordChars == Lower \cup Upper \cup Digits \cup {"_"}
\* the characters [\d.] matches
NumberChars == Digits \cup {"."}

KwRankdir == <<"r", "a", "n", "k", "d", "i", "r">>
KwSplines == <<"s", "p", "l", "i", "n", "e", "s">>
KwNodesep == <<"n", "o", "d", "e", "s", "e", "p">>
KwRanksep == <<"r", "a", "n", "k", "s", "e", "p">>
KwOrtho == <<"o", "r", "t", "h", "o">>
KwPolyline == <<"p", "o", "l", "y", "l", "i", "n", "e">>
KwLabelEq == <<"l", "a", "b", "e", "l", "=">>
KwXlabelEq == <<"x">> \o KwLabelEq

\* the LayoutOptions defaults of lines 34-38, the floats as Python prints them
DefaultLayout ==
    [direction |-> <<"T", "B">>, splines |-> KwPolyline,
     nodesep |-> <<"0", ".", "5">>, ranksep |-> <<"0", ".", "7", "5">>,
     zoom |-> <<"1", ".", "0">>]

\* the first index at or after i whose character is not in S (Len(s) + 1 if
\* there is none): where a greedy S* that starts at i stops
SkipChars(s, i, S) ==
    Bind({j \in i..Len(s) : s[j] \notin S}, LAMBDA stop :
         IF stop = {} THEN Len(s) + 1 ELSE MinOf(stop))

\* the position after the match of  kw\s*=\s*[vc]+\s*;?  that starts at
\* position i of s, 0 if there is none
AttrEnd(s, i, kw, vc) ==
    IF ~StartsWithAt(s, kw, i) THEN 0
    ELSE Bind(SkipChars(s, i + Len(kw), Whitespace), LAMBDA eq :
         IF eq > Len(s) \/ s[eq] # "=" THEN 0
         ELSE Bind(SkipChars(s, eq + 1, Whitespace), LAMBDA v0 :
              Bind(SkipChars(s, v0, vc), LAMBDA v1 :
              Bind(SkipChars(s, v1, Whitespace), LAMBDA semi :
                  IF v1 = v0 THEN 0
                  ELSE IF semi <= Len(s) /\ s[semi] = ";" THEN semi + 1
                  ELSE semi))))

\* re.sub(kw\s*=\s*[vc]+\s*;?, "", s)
RemoveAttr(s, kw, vc) ==
    RemoveMatches(s, [i \in 1..Len(s) |-> AttrEnd(s, i, kw, vc)])

\* lines 201-204
RemoveLayoutAttrs(s) ==
    Bind(RemoveAttr(s, KwRankdir, WordChars), LAMBDA s1 :
    Bind(RemoveAttr(s1, KwSplines, WordChars), LAMBDA s2 :
    Bind(RemoveAttr(s2, KwNodesep, NumberChars), LAMBDA s3 :
         RemoveAttr(s3, KwRanksep, NumberChars))))

Indent == <<" ", " ", " ", " ">>

NodeDefaults ==
    <<"n", "o", "d", "e", " ", "[", "s", "h", "a", "p", "e", "=", "b",
      "o", "x", ",", " ", "s", "t", "y", "l", "e", "=", QUOTE, "r",
      "o", "u", "n", "d", "e", "d", ",", "f", "i", "l", "l", "e", "d",
      QUOTE, ",", " ", "f", "o", "n", "t", "n", "a", "m", "e", "=",
      QUOTE, "H", "e", "l", "v", "e", "t", "i", "c", "a", QUOTE, ",",
      " ", "f", "o", "n", "t", "s", "i", "z", "e", "=", "1", "2", ",",
      " ", "w", "i", "d", "t", "h", "=", "2", ".", "0", ",", " ", "h",
      "e", "i", "g", "h", "t", "=", "0", ".", "6", ",", " ", "m", "a",
      "r", "g", "i", "n", "=", QUOTE, "0", ".", "2", ",", "0", ".",
      "1", QUOTE, "]", ";">>

EdgeDefaults ==
    <<"e", "d", "g", "e", " ", "[", "f", "o", "n", "t", "n", "a", "m",
      "e", "=", QUOTE, "H", "e", "l", "v", "e", "t", "i", "c", "a",
      QUOTE, ",", " ", "f", "o", "n", "t", "s", "i", "z", "e", "=",
      "1", "0", ",", " ", "a", "r", "r", "o", "w", "s", "i", "z", "e",
      "=", "0", ".", "8", "]", ";">>

\* lines 207-215
LayoutSettings(layout) ==
    <<NL>> \o Indent \o KwRankdir \o <<"=">> \o layout.direction \o <<";", NL>>
    \o Indent \o KwSplines \o <<"=">> \o layout.splines \o <<";", NL>>
    \o Indent \o KwNodesep \o <<"=">> \o layout.nodesep \o <<";", NL>>
    \o Indent \o KwRanksep \o <<"=">> \o layout.ranksep \o <<";", NL>>
    \o Indent \o <<"p", "a", "d", "=", "0", ".", "5", ";", NL>>
    \o Indent \o NodeDefaults \o <<NL>>
    \o Indent \o EdgeDefaults \o <<NL>>

\* s.replace(old, new, 1)
ReplaceFirst(s, old, new) ==
    IF ~Contains(s, old) THEN s
    ELSE Bind(MinOf(Occurrences(s, old)), LAMBDA i :
              SubSeq(s, 1, i - 1) \o new \o Drop(s, i - 1 + Len(old)))

\* s.replace(old, new)
ReplaceAll(s, old, new) == Bind(Split(s, old), LAMBDA parts : Join(parts, new))

\* lines 222-225
OrthoLine(line) ==
    IF /\ Contains(line, Arrow)
       /\ Contains(line, KwLabelEq)
       /\ ~Contains(line, KwXlabelEq)
    THEN ReplaceAll(line, KwLabelEq, KwXlabelEq)
    ELSE line

\* lines 219-226
ConvertLabels(s) ==
    Bind(Split(s, <<NL>>), LAMBDA lines :
    Bind([i \in 1..Len(lines) |-> OrthoLine(lines[i])], LAMBDA converted :
         Join(converted, <<NL>>)))

ApplyLayout(dot_source, layout) ==
    Bind(RemoveLayoutAttrs(dot_source), LAMBDA removed :
    Bind(LayoutSettings(layout), LAMBDA layout_settings :
    Bind(ReplaceFirst(removed, <<"{">>, <<"{">> \o layout_settings), LAMBDA injected :
         IF layout.splines = KwOrtho THEN ConvertLabels(injected) ELSE injected)))

-----------------------------------------------------------------------------
(* DiagramGenerator._count_nodes_edges                                     *)

\* line 304
Keywords ==
    {
      <<"d", "i", "g", "r", "a", "p", "h">>,
      <<"g", "r", "a", "p", "h">>,
      <<"s", "u", "b", "g", "r", "a", "p", "h">>,
      <<"n", "o", "d", "e">>,
      <<"e", "d", "g", "e">>,
      <<"r", "a", "n", "k", "d", "i", "r">>,
      <<"s", "p", "l", "i", "n", "e", "s">>,
      <<"n", "o", "d", "e", "s", "e", "p">>,
      <<"r", "a", "n", "k", "s", "e", "p">>,
      <<"l", "a", "b", "e", "l">>,
      <<"s", "t", "y", "l", "e">>,
      <<"s", "h", "a", "p", "e">>,
      <<"c", "o", "l", "o", "r">>,
      <<"f", "i", "l", "l", "c", "o", "l", "o", "r">>,
      <<"f", "o", "n", "t", "n", "a", "m", "e">>,
      <<"f", "o", "n", "t", "s", "i", "z", "e">>,
      <<"m", "a", "r", "g", "i", "n">>,
      <<"p", "a", "d">>,
      <<"w", "i", "d", "t", "h">>,
      <<"h", "e", "i", "g", "h", "t">>,
      <<"a", "r", "r", "o", "w", "s", "i", "z", "e">>,
      <<"c", "l", "u", "s", "t", "e", "r">>,
      <<"t", "b">>,
      <<"l", "r">>,
      <<"b", "t">>,
      <<"r", "l">> }

LowerOf ==
    [c \in Upper |->
        CASE c = "A" -> "a" [] c = "B" -> "b" [] c = "C" -> "c" [] c = "D" -> "d"
          [] c = "E" -> "e" [] c = "F" -> "f" [] c = "G" -> "g" [] c = "H" -> "h"
          [] c = "I" -> "i" [] c = "J" -> "j" [] c = "K" -> "k" [] c = "L" -> "l"
          [] c = "M" -> "m" [] c = "N" -> "n" [] c = "O" -> "o" [] c = "P" -> "p"
          [] c = "Q" -> "q" [] c = "R" -> "r" [] c = "S" -> "s" [] c = "T" -> "t"
          [] c = "U" -> "u" [] c = "V" -> "v" [] c = "W" -> "w" [] c = "X" -> "x"
          [] c = "Y" -> "y" [] c = "Z" -> "z"]

\* str.lower()
ToLower(s) == [i \in 1..Len(s) |-> IF s[i] \in Upper THEN LowerOf[s[i]] ELSE s[i]]

\* str.isdigit()
IsDigitStr(s) == s # <<>> /\ \A i \in 1..Len(s) : s[i] \in Digits

\* lines 316, 325, 327
IsNodeName(name) ==
    name # <<>> /\ ToLower(name) \notin Keywords /\ ~IsDigitStr(name)

NoMatch == [end |-> 0, name |-> <<>>]

\* the match of  "([^"]+)"  at position i of s: `end` is the position after
\* the match (0 when there is none) and `name` the captured group
QuotedAt(s, i) ==
    IF i > Len(s) \/ s[i] # QUOTE THEN NoMatch
    ELSE Bind({j \in (i + 1)..Len(s) : s[j] = QUOTE}, LAMBDA close :
         IF close = {} \/ MinOf(close) = i + 1 THEN NoMatch
         ELSE [end |-> MinOf(close) + 1,
               name |-> SubSeq(s, i + 1, MinOf(close) - 1)])

\* the match of  (\w+)  at position i of s
WordAt(s, i) ==
    IF i > Len(s) \/ s[i] \notin WordChars THEN NoMatch
    ELSE Bind(SkipChars(s, i, WordChars), LAMBDA e :
              [end |-> e, name |-> SubSeq(s, i, e - 1)])

\* the match of  (?:"([^"]+)"|(\w+))  at position i of s
NodeTokenAt(s, i) ==
    Bind(QuotedAt(s, i), LAMBDA quoted : IF quoted.end > 0 THEN quoted ELSE WordAt(s, i))

\* the match of the edge pattern of lines 300 and 320 at position i of s
NoEdge == [end |-> 0, src |-> <<>>, dst |-> <<>>]

EdgeAt(s, i) ==
    Bind(NodeTokenAt(s, i), LAMBDA src :
    IF src.end = 0 THEN NoEdge
    ELSE Bind(SkipChars(s, src.end, Whitespace), LAMBDA arrow :
         IF ~StartsWithAt(s, Arrow, arrow) THEN NoEdge
         ELSE Bind(SkipChars(s, arrow + 2, Whitespace), LAMBDA after :
              Bind(NodeTokenAt(s, after), LAMBDA dst :
                   IF dst.end > 0
                   THEN [end |-> dst.end, src |-> src.name, dst |-> dst.name]
                   ELSE NoEdge))))

\* re.findall of the edge pattern: the matches found left to right
FindEdges(s) ==
    Bind(Scan([i \in 1..Len(s) |-> EdgeAt(s, i).end], 1), LAMBDA starts :
         [k \in 1..Len(starts) |-> EdgeAt(s, starts[k])])

\* where ^ matches under re.MULTILINE
IsLineStart(s, i) == i = 1 \/ s[i - 1] = NL

\* the match of  ^\s*"([^"]+)"\s*\[  (quoted) or  ^\s*(\w+)\s*\[  at position i
DefAt(s, i, quoted) ==
    IF ~IsLineStart(s, i) THEN NoMatch
    ELSE Bind(SkipChars(s, i, Whitespace), LAMBDA start :
         Bind(IF quoted THEN QuotedAt(s, start) ELSE WordAt(s, start), LAMBDA tok :
         IF tok.end = 0 THEN NoMatch
         ELSE Bind(SkipChars(s, tok.end, Whitespace), LAMBDA bracket :
              IF bracket <= Len(s) /\ s[bracket] = "["
              THEN [end |-> bracket + 1, name |-> tok.name]
              ELSE NoMatch)))

\* the names re.findall captures for a definition pattern
FindDefs(s, quoted) ==
    Bind(Scan([i \in 1..Len(s) |-> DefAt(s, i, quoted).end], 1), LAMBDA starts :
         {DefAt(s, starts[k], quoted).name : k \in 1..Len(starts)})

\* lines 306-328
NodeSet(dot_content) ==
    Bind(FindEdges(dot_content), LAMBDA edges :
        FindDefs(dot_content, TRUE)
        \cup {n \in FindDefs(dot_content, FALSE) : IsNodeName(n)}
        \cup {edges[k].src : k \in {j \in 1..Len(edges) : IsNodeName(edges[j].src)}}
        \cup {edges[k].dst : k \in {j \in 1..Len(edges) : IsNodeName(edges[j].dst)}})

\* as CountNodesEdges, with the edges counted only up to the first ';'
CountNodesEdgesToSemicolon(dot_content) ==
    <<Cardinality(NodeSet(dot_content)),
      Len(FindEdges(Split(dot_content, <<";">>)[1]))>>

\* _count_nodes_edges: (number of nodes, number of edges)
CountNodesEdges(dot_content) ==
    <<Cardinality(NodeSet(dot_content)), Len(FindEdges(dot_content))>>

-----------------------------------------------------------------------------
(* The history store: DiagramGenerator._save_diagram                       *)

\* a dict is a function from its keys; None and the empty dict are <<>>
NoDict == <<>>
\* an optional text: <<>> is None, <<t>> is the text t
None == <<>>
Some(v) == <<v>>

DigitChar == <<"0", "1", "2", "3", "4", "5", "6", "7", "8", "9">>
TwoDigits(n) == <<DigitChar[(n \div 10) + 1], DigitChar[(n % 10) + 1]>>

SecondsPerDay == 86400

\* line 264: datetime.now().strftime("%Y%m%d_%H%M%S"), for a clock that
\* counts the seconds since 2024-01-01 00:00:00 and stays within January
Timestamp(now) ==
    <<"2", "0", "2", "4", "0", "1">> \o TwoDigits((now \div SecondsPerDay) + 1)
    \o <<"_">> \o TwoDigits((now % SecondsPerDay) \div 3600)
    \o TwoDigits((now % 3600) \div 60) \o TwoDigits(now % 60)

MaxSafeRepoLen == 50

\* c.isalnum() or c in "_-"
SafeChars == Lower \cup Upper \cup Digits \cup {"_", "-"}

\* lines 267-268
SafeRepo(repo_name) ==
    Bind(ReplaceAll(repo_name, <<"/">>, <<"_">>), LAMBDA slashless :
    Bind(ReplaceAll(slashless, <<" ">>, <<"_">>), LAMBDA replaced :
    Bind(SelectSeq(replaced, LAMBDA c : c \in SafeChars), LAMBDA safe :
         Take(safe, MaxSafeRepoLen))))

DotSuffix == <<".", "d", "o", "t">>
JsonSuffix == <<".", "j", "s", "o", "n">>
RawPrefix == <<"r", "a", "w">>

\* as DiagramFilename, with a timestamp of minutes: the two digits of the
\* seconds are left out of the name
DiagramFilenameByMinute(prefix, repo_name, timestamp) ==
    Bind(SafeRepo(repo_name), LAMBDA safe_repo :
    Bind(Take(timestamp, Len(timestamp) - 2), LAMBDA minute :
        IF safe_repo # <<>>
        THEN prefix \o <<"_">> \o safe_repo \o <<"_">> \o minute \o DotSuffix
        ELSE prefix \o <<"_">> \o minute \o DotSuffix))

\* line 270
DiagramFilename(prefix, repo_name, timestamp) ==
    Bind(SafeRepo(repo_name), LAMBDA safe_repo :
        IF safe_repo # <<>>
        THEN prefix \o <<"_">> \o safe_repo \o <<"_">> \o timestamp \o DotSuffix
        ELSE prefix \o <<"_">> \o timestamp \o DotSuffix)

\* line 287: filepath.with_suffix(".json") of a name that ends in ".dot"
MetaFilename(filename) == Take(filename, Len(filename) - Len(DotSuffix)) \o JsonSuffix

\* lines 281-285: the document written beside the diagram
MetadataDocument(metadata, dot_content, repo_name, timestamp) ==
    Bind(CountNodesEdges(dot_content), LAMBDA counts :
    [k \in DOMAIN metadata \cup {"node_count", "edge_count", "repo_name", "timestamp"} |->
        CASE k = "node_count" -> counts[1]
          [] k = "edge_count" -> counts[2]
          [] k = "repo_name" -> repo_name
          [] k = "timestamp" -> timestamp
          [] OTHER -> metadata[k]])

\* the directory after open(path, "w") and a write of `content`
WriteFile(dir, path, content) == (path :> content) @@ dir

\* the directory after open(path, "w"): the file is there, and empty
OpenForWriting(dir, path) == WriteFile(dir, path, <<>>)

\* the text of a file that held `old` after a writer that opened it earlier
\* writes `new` from the start of the file
Overlay(old, new) ==
    IF Len(new) >= Len(old) THEN new ELSE new \o SubSeq(old, Len(new) + 1, Len(old))

\* the outcomes of the file system for one save: both files written, the
\* diagram file cannot be opened, the metadata file cannot be opened
IoOutcomes == {"ok", "dot_fails", "meta_fails"}

\* _save_diagram run to its end at time `now`: the directory after it
SaveDiagram(dir, dot_content, prefix, repo_name, metadata, now, io) ==
    Bind(Timestamp(now), LAMBDA timestamp :
    Bind(DiagramFilename(prefix, repo_name, timestamp), LAMBDA filename :
    Bind(WriteFile(dir, filename, dot_content), LAMBDA saved :
        IF io = "dot_fails" THEN dir
        ELSE IF metadata = NoDict \/ io = "meta_fails" THEN saved
        ELSE WriteFile(saved, MetaFilename(filename),
                       MetadataDocument(metadata, dot_content, repo_name, timestamp)))))

-----------------------------------------------------------------------------
(* DiagramGenerator.render                                                 *)

ErrorPrefix == KwError \o <<":">>

FallbackLimit == 2000

RateLimitedText ==
    <<"R", "a", "t", "e", " ", "l", "i", "m", "i", "t", "e", "d", " ",
      "-", " ", "r", "e", "c", "e", "i", "v", "e", "d", " ", "e", "r",
      "r", "o", "r", " ", "i", "n", "s", "t", "e", "a", "d", " ", "o",
      "f", " ", "d", "i", "a", "g", "r", "a", "m">>

\* what str(e) is for a failure of the external renderer
RendererFailedText ==
    <<"r", "e", "n", "d", "e", "r", "e", "r", " ", "f", "a", "i", "l",
      "e", "d">>

NoHtml == [kind |-> "none", text |-> <<>>, error |-> None, zoom |-> <<>>]

\* lines 457-461
ErrorHtml(message) ==
    [kind |-> "error", text |-> message, error |-> None, zoom |-> <<>>]

\* lines 463-470
FallbackHtml(content, error) ==
    [kind |-> "fallback", text |-> Take(content, FallbackLimit),
     error |-> error, zoom |-> <<>>]

\* lines 126-129: the picture the renderer draws of `dot_source`, wrapped
DiagramHtml(dot_source, zoom) ==
    [kind |-> "diagram", text |-> dot_source, error |-> None, zoom |-> zoom]

\* A call of render is a record `c`: the arguments dot_source, layout,
\* repo_name, save_to_history and metadata, the time `now` of the call, and
\* what the environment does during it: `io` (the file system),
\* `graphviz_available` (line 25) and `renderer_ok` (the external renderer).

\* the try statement if the diagram were saved after the repair step
RenderTrySavedLate(dir, c) ==
    Bind(PrepareDot(c.dot_source), LAMBDA prepared :
    Bind(SanitizeDot(prepared), LAMBDA sanitized :
        IF sanitized.raised
        THEN [exc |-> Some(RateLimitedText), dot_source |-> prepared, dir |-> dir]
        ELSE Bind(IF c.save_to_history
                  THEN SaveDiagram(dir, sanitized.text, RawPrefix, c.repo_name,
                                   c.metadata, c.now, c.io)
                  ELSE dir, LAMBDA dir1 :
             Bind(ApplyLayout(sanitized.text, c.layout), LAMBDA laid_out :
             IF ~c.renderer_ok
             THEN [exc |-> Some(RendererFailedText), dot_source |-> laid_out,
                   dir |-> dir1]
             ELSE [exc |-> None, dot_source |-> laid_out, dir |-> dir1]))))

\* lines 111-129, the body of the try statement: `exc` is None or the text of
\* the exception that ends it, `dot_source` the local variable at that
\* point, `dir` the diagrams directory after it
RenderTry(dir, c) ==
    Bind(PrepareDot(c.dot_source), LAMBDA prepared :
    Bind(IF c.save_to_history
         THEN SaveDiagram(dir, prepared, RawPrefix, c.repo_name,
                          c.metadata, c.now, c.io)
         ELSE dir, LAMBDA dir1 :
    Bind(SanitizeDot(prepared), LAMBDA sanitized :
        IF sanitized.raised
        THEN [exc |-> Some(RateLimitedText), dot_source |-> prepared, dir |-> dir1]
        ELSE Bind(ApplyLayout(sanitized.text, c.layout), LAMBDA laid_out :
             IF ~c.renderer_ok
             THEN [exc |-> Some(RendererFailedText), dot_source |-> laid_out,
                   dir |-> dir1]
             ELSE [exc |-> None, dot_source |-> laid_out, dir |-> dir1]))))

\* the try statement if it had no handler
RenderUncaught(dir, c) ==
    Bind(RenderTry(dir, c), LAMBDA t :
         [html |-> IF t.exc # None
                   THEN [kind |-> "raised", text |-> <<>>, error |-> t.exc, zoom |-> <<>>]
                   ELSE DiagramHtml(t.dot_source, c.layout.zoom),
          dir |-> t.dir])

\* lines 111-133: the try statement with its handler
RenderCaught(dir, c) ==
    Bind(RenderTry(dir, c), LAMBDA t :
         [html |-> IF t.exc # None
                   THEN FallbackHtml(t.dot_source, t.exc)
                   ELSE DiagramHtml(t.dot_source, c.layout.zoom),
          dir |-> t.dir])

\* render: the html returned and the diagrams directory after the call
RenderResult(dir, c) ==
    IF StartsWith(c.dot_source, ErrorPrefix)
    THEN [html |-> ErrorHtml(c.dot_source), dir |-> dir]
    ELSE IF ~c.graphviz_available
    THEN [html |-> FallbackHtml(c.dot_source, None), dir |-> dir]
    ELSE RenderCaught(dir, c)

-----------------------------------------------------------------------------
(* The MCP tool analyze_codebase (src/src/mcp/tools.py)                    *)

NoSourceText ==
    <<"E", "r", "r", "o", "r", ":", " ", "P", "l", "e", "a", "s", "e",
      " ", "p", "r", "o", "v", "i", "d", "e", " ", "e", "i", "t", "h",
      "e", "r", " ", "a", " ", "G", "i", "t", "H", "u", "b", " ", "U",
      "R", "L", " ", "o", "r", " ", "a", " ", "f", "i", "l", "e", " ",
      "p", "a", "t", "h", ".">>

NoApiKeyText ==
    <<"E", "r", "r", "o", "r", ":", " ", "A", "P", "I", " ", "k", "e",
      "y", " ", "i", "s", " ", "r", "e", "q", "u", "i", "r", "e", "d",
      ".">>

\* A call of analyze_codebase is a record `c`: whether a URL or a path and an
\* API key were given, what the loader answered (`load_error` is None or the
\* error text, `repo_name` the label), what the analyzer answered
\* (`analysis_error` is None or the error text, `content` the diagram text),
\* the time `now` and the file system's outcome `io`.

\* analyze_codebase: the text returned and the diagrams directory after it
AnalyzeCodebase(dir, c) ==
    IF ~c.source_given THEN [text |-> NoSourceText, dir |-> dir]
    ELSE IF ~c.api_key_given THEN [text |-> NoApiKeyText, dir |-> dir]
    ELSE IF c.load_error # None
    THEN [text |-> ErrorPrefix \o <<" ">> \o c.load_error[1], dir |-> dir]
    ELSE IF c.analysis_error # None
    THEN [text |-> ErrorPrefix \o <<" ">> \o c.analysis_error[1], dir |-> dir]
    ELSE [text |-> c.content,
          dir |-> SaveDiagram(dir, c.content, RawPrefix, c.repo_name, NoDict,
                              c.now, c.io)]

-----------------------------------------------------------------------------
(* The session state file (src/src/ui/app.py 56-86) and the global Config  *)
(* (src/src/config.py 119-197).  A dict is a function from its keys; the   *)
(* API keys and the model names are strings, the other texts sequences of  *)
(* characters.                                                             *)

DefaultModel == "Gemini 2.5 Pro"
OpenAiModel == "GPT-5.1"

\* ModelConfig.get_model_id for the display names above
GetModelId(display_name) ==
    CASE display_name = DefaultModel ->
            <<"g", "e", "m", "i", "n", "i", "-", "2", ".", "5", "-",
              "p", "r", "o">>
      [] display_name = OpenAiModel -> <<"g", "p", "t", "-", "5", ".", "1">>
      [] OTHER ->
            <<"g", "e", "m", "i", "n", "i", "-", "2", ".", "5", "-",
              "p", "r", "o">>

\* ModelConfig.is_openai_model
IsOpenAiModel(model_name) ==
    \/ StartsWith(model_name, <<"g", "p", "t", "-">>)
    \/ StartsWith(model_name, <<"o", "1">>)
    \/ StartsWith(model_name, <<"o", "3">>)

\* the dict load_session_state returns when there is no file (lines 64-73)
DefaultSession ==
    [dot_source |-> None, repo_name |-> <<>>, stats |-> NoDict, api_key |-> "",
     openai_api_key |-> "", elevenlabs_api_key |-> "", model |-> DefaultModel,
     pending_request |-> None]

NoFile == [exists |-> FALSE, data |-> NoDict]

\* load_session_state
LoadSessionState(file) == IF file.exists THEN file.data ELSE DefaultSession

\* dict.update
DictUpdate(existing, data) ==
    [k \in DOMAIN existing \cup DOMAIN data |->
        IF k \in DOMAIN data THEN data[k] ELSE existing[k]]

\* dict.get
DictGet(d, k, default) == IF k \in DOMAIN d THEN d[k] ELSE default

\* what a write of the session file does: it succeeds, or open() fails and
\* the file stays as it is
WriteOutcomes == {"ok", "fails"}

\* save_session_state: the file after it
SaveSessionState(file, data, io) ==
    IF io = "ok"
    THEN [exists |-> TRUE, data |-> DictUpdate(LoadSessionState(file), data)]
    ELSE file

\* Config.save_to_session: the file after it
SaveToSession(cfg, file, io) ==
    IF io = "ok"
    THEN [exists |-> TRUE,
          data |-> [api_key |-> cfg.gemini_api_key,
                    openai_api_key |-> cfg.openai_api_key,
                    elevenlabs_api_key |-> cfg.elevenlabs_api_key,
                    model |-> cfg.current_model]]
    ELSE file

\* Config(): the keys come from the environment
NewConfig(env) ==
    [gemini_api_key |-> env.gemini, openai_api_key |-> env.openai,
     elevenlabs_api_key |-> env.elevenlabs, current_model |-> DefaultModel]

\* Config.load_from_session
LoadFromSession(cfg, file) ==
    IF file.exists
    THEN [gemini_api_key |-> DictGet(file.data, "api_key", cfg.gemini_api_key),
          openai_api_key |-> DictGet(file.data, "openai_api_key", cfg.openai_api_key),
          elevenlabs_api_key |->
              DictGet(file.data, "elevenlabs_api_key", cfg.elevenlabs_api_key),
          current_model |-> DictGet(file.data, "model", cfg.current_model)]
    ELSE cfg

\* Python's truth value of an optional text: None and "" are false
Truthy(opt) == opt # None /\ opt[1] # <<>>

\* s.rstrip("/")
RStripSlash(s) ==
    Bind({i \in 1..Len(s) : s[i] # "/"}, LAMBDA keep :
         IF keep = {} THEN <<>> ELSE SubSeq(s, 1, MaxOf(keep)))

\* app.py 350-351: the label shown for a repository URL
UrlDisplayName(github_url) ==
    Bind(Split(RStripSlash(github_url), <<"/">>), LAMBDA parts :
         IF Len(parts) >= 2
         THEN parts[Len(parts) - 1] \o <<"/">> \o parts[Len(parts)]
         ELSE github_url)

\* Path(file_path).stem: the last component without its last suffix
PathStem(file_path) ==
    Bind(Split(RStripSlash(file_path), <<"/">>), LAMBDA parts :
    Bind(parts[Len(parts)], LAMBDA name :
    Bind({i \in 2..Len(name) : name[i] = "."}, LAMBDA dots :
         IF dots = {} \/ MaxOf(dots) = Len(name) THEN name
         ELSE SubSeq(name, 1, MaxOf(dots) - 1))))

\* app.py 348-354
DisplayName(pending) ==
    IF Truthy(pending.github_url) THEN UrlDisplayName(pending.github_url[1])
    ELSE IF Truthy(pending.file_path) THEN PathStem(pending.file_path[1])
    ELSE <<"u", "p", "l", "o", "a", "d">>

NotRunning == [pc |-> "idle"]

-----------------------------------------------------------------------------
(* RepositoryLoader._download_github_repo (repository.py 102-145).         *)

HttpScheme ==
    <<"h", "t", "t", "p", ":", "/", "/">>

HttpsScheme ==
    <<"h", "t", "t", "p", "s", ":", "/", "/">>

GitSuffix == <<".", "g", "i", "t">>

JsSuffix == <<".", "j", "s">>

GithubHost ==
    <<"g", "i", "t", "h", "u", "b", ".", "c", "o", "m">>

\* lines 106-110: the URL stripped, without trailing slashes and ".git",
\* with a scheme
NormalizeUrl(url) ==
    Bind(RStripSlash(Strip(url)), LAMBDA u :
    Bind(IF EndsWith(u, GitSuffix) THEN Take(u, Len(u) - Len(GitSuffix)) ELSE u,
         LAMBDA v :
         IF StartsWith(v, HttpScheme) \/ StartsWith(v, HttpsScheme) THEN v
         ELSE HttpsScheme \o v))

\* the last position of the run of non-slash characters that starts at i
\* (i - 1 when the run is empty): what [^/]+ matches from i
SegmentEnd(s, i) ==
    MinOf({j \in i..(Len(s) + 1) : j = Len(s) + 1 \/ s[j] = "/"}) - 1

NoRepoMatch == [found |-> FALSE]

\* the match of github\.com/([^/]+)/([^/]+) that starts at i, where
\* "github.com/" occurs
RepoMatchAt(s, i) ==
    Bind(i + Len(GithubHost) + 1, LAMBDA o :
    Bind(SegmentEnd(s, o), LAMBDA oe :
         IF oe < o \/ oe + 1 > Len(s) THEN NoRepoMatch
         ELSE Bind(SegmentEnd(s, oe + 2), LAMBDA re :
              IF re < oe + 2 THEN NoRepoMatch
              ELSE [found |-> TRUE, owner |-> SubSeq(s, o, oe),
                    repo |-> SubSeq(s, oe + 2, re)])))

\* re.search(r"github\.com/([^/]+)/([^/]+)", url): the leftmost match
RepoMatch(s) ==
    Bind({i \in Occurrences(s, GithubHost \o <<"/">>) : RepoMatchAt(s, i).found},
         LAMBDA at : IF at = {} THEN NoRepoMatch ELSE RepoMatchAt(s, MinOf(at)))

\* line 122
CleanRepo(repo) ==
    IF Contains(repo, <<".">>) /\ ~EndsWith(repo, JsSuffix)
    THEN Split(repo, <<".">>)[1]
    ELSE repo

\* line 123
CleanUrl(owner, repo) ==
    HttpsScheme \o GithubHost \o <<"/">> \o owner \o <<"/">> \o repo

InvalidUrlText ==
    <<"P", "l", "e", "a", "s", "e", " ", "p", "r", "o", "v", "i", "d",
      "e", " ", "a", " ", "v", "a", "l", "i", "d", " ", "G", "i", "t",
      "H", "u", "b", " ", "U", "R", "L">>

InvalidFormatText ==
    <<"I", "n", "v", "a", "l", "i", "d", " ", "G", "i", "t", "H", "u",
      "b", " ", "U", "R", "L", " ", "f", "o", "r", "m", "a", "t">>

TimedOutText ==
    <<"R", "e", "q", "u", "e", "s", "t", " ", "t", "i", "m", "e", "d",
      " ", "o", "u", "t">>

NetworkErrorPrefix ==
    <<"N", "e", "t", "w", "o", "r", "k", " ", "e", "r", "r", "o", "r",
      ":", " ">>

GenericErrorPrefix == ErrorPrefix \o <<" ">>

RepoNotFoundPrefix ==
    <<"R", "e", "p", "o", "s", "i", "t", "o", "r", "y", " ", "n", "o",
      "t", " ", "f", "o", "u", "n", "d", ":", " ">>

\* str() of the zipfile.BadZipFile that ZipFile raises for a body that is
\* not an archive
BadZipText ==
    <<"F", "i", "l", "e", " ", "i", "s", " ", "n", "o", "t", " ", "a",
      " ", "z", "i", "p", " ", "f", "i", "l", "e">>

\* what _download_github_repo returns: (zip_file, None) or (None, error)
Downloaded(zip_file) == [kind |-> "returned", zip |-> Some(zip_file), error |-> None]
DownloadFailed(error) == [kind |-> "returned", zip |-> None, error |-> Some(error)]
NoDownloadResult == [kind |-> "none"]

\* lines 106-123: the owner, the repository and the clean URL, or the error
\* the function returns before any request
DownloadTarget(url) ==
    Bind(NormalizeUrl(url), LAMBDA u :
         IF ~Contains(u, GithubHost) THEN [error |-> Some(InvalidUrlText)]
         ELSE Bind(RepoMatch(u), LAMBDA m :
              IF ~m.found THEN [error |-> Some(InvalidFormatText)]
              ELSE Bind(CleanRepo(m.repo), LAMBDA repo :
                   [error |-> None, owner |-> m.owner, repo |-> repo,
                    clean_url |-> CleanUrl(m.owner, repo)])))

\* line 126
Branches ==
    <<<<"H", "E", "A", "D">>, <<"m", "a", "i", "n">>,
      <<"m", "a", "s", "t", "e", "r">>>>

\* line 127
ArchiveUrl(clean_url, branch) ==
    clean_url \o <<"/", "a", "r", "c", "h", "i", "v", "e", "/">> \o branch
        \o <<".", "z", "i", "p">>

\* what requests.get and the reading of the body can do: an answer with a
\* status code (the body of a 200 is a ZIP archive, is not one, or breaks
\* off while it is read), a timeout, or another network error
Responses ==
    {[kind |-> "status", code |-> 200, body |-> b] : b \in {"zip", "not_zip", "broken"}}
        \cup {[kind |-> "status", code |-> c, body |-> "none"] : c \in {404, 500}}
        \cup {[kind |-> "timeout", detail |-> <<"t", "i", "m", "e", "d">>],
              [kind |-> "network_error", detail |-> <<"r", "e", "f", "u", "s", "e", "d">>]}

Requesting == [pc |-> "requesting", result |-> NoDownloadResult]
Returned(result) == [pc |-> "done", result |-> result]

\* as AfterResponse, with a timeout handled inside the loop: the next branch
\* is tried
AfterResponseTimeoutSkips(target, n, archive_url, resp) ==
    IF resp.kind = "timeout"
    THEN IF n = Len(Branches) THEN Returned(DownloadFailed(TimedOutText))
         ELSE Requesting
    ELSE IF resp.kind = "network_error"
    THEN Returned(DownloadFailed(NetworkErrorPrefix \o resp.detail))
    ELSE IF resp.code = 200
    THEN IF resp.body = "broken"
         THEN Returned(DownloadFailed(NetworkErrorPrefix \o <<"b", "r", "o", "k", "e", "n">>))
         ELSE IF resp.body = "not_zip"
         THEN Returned(DownloadFailed(GenericErrorPrefix \o BadZipText))
         ELSE Returned(Downloaded([from |-> archive_url]))
    ELSE IF n = Len(Branches)
    THEN Returned(DownloadFailed(RepoNotFoundPrefix \o target.owner \o <<"/">>
                                     \o target.repo))
    ELSE Requesting

\* as AfterResponse, with the handler for RequestException before the one
\* for Timeout, its subclass
AfterResponseHandlersSwapped(target, n, archive_url, resp) ==
    IF resp.kind \in {"timeout", "network_error"}
    THEN Returned(DownloadFailed(NetworkErrorPrefix \o resp.detail))
    ELSE IF resp.code = 200
    THEN IF resp.body = "broken"
         THEN Returned(DownloadFailed(NetworkErrorPrefix \o <<"b", "r", "o", "k", "e", "n">>))
         ELSE IF resp.body = "not_zip"
         THEN Returned(DownloadFailed(GenericErrorPrefix \o BadZipText))
         ELSE Returned(Downloaded([from |-> archive_url]))
    ELSE IF n = Len(Branches)
    THEN Returned(DownloadFailed(RepoNotFoundPrefix \o target.owner \o <<"/">>
                                     \o target.repo))
    ELSE Requesting

\* the n-th pass of the loop (lines 126-136) once the request for archive_url
\* is answered by resp, line 138 after the last pass, and the handlers of
\* lines 140-145: the function returns, or goes on to the next branch
AfterResponse(target, n, archive_url, resp) ==
    IF resp.kind = "timeout"
    THEN Returned(DownloadFailed(TimedOutText))
    ELSE IF resp.kind = "network_error"
    THEN Returned(DownloadFailed(NetworkErrorPrefix \o resp.detail))
    ELSE IF resp.code = 200
    THEN IF resp.body = "broken"
         THEN Returned(DownloadFailed(NetworkErrorPrefix \o <<"b", "r", "o", "k", "e", "n">>))
         ELSE IF resp.body = "not_zip"
         THEN Returned(DownloadFailed(GenericErrorPrefix \o BadZipText))
         ELSE Returned(Downloaded([from |-> archive_url]))
    ELSE IF n = Len(Branches)
    THEN Returned(DownloadFailed(RepoNotFoundPrefix \o target.owner \o <<"/">>
                                     \o target.repo))
    ELSE Requesting

-----------------------------------------------------------------------------
(* ProcessingConfig (config.py 72-115) and RepositoryLoader._is_allowed_file *)
(* (repository.py 147-191).                                                *)

ALLOWED_EXTENSIONS ==
    {<<".", "p", "y">>, <<".", "j", "s">>, <<".", "t", "s">>, <<".", "j", "s", "x">>,
     <<".", "t", "s", "x">>, <<".", "j", "a", "v", "a">>, <<".", "c", "p", "p">>, <<".", "c">>,
     <<".", "h">>, <<".", "c", "s">>, <<".", "g", "o">>, <<".", "r", "s">>,
     <<".", "p", "h", "p">>, <<".", "r", "b">>, <<".", "s", "q", "l">>,
     <<".", "y", "a", "m", "l">>, <<".", "y", "m", "l">>, <<".", "j", "s", "o", "n">>,
     <<".", "m", "d">>, <<".", "t", "x", "t">>, <<".", "s", "h">>, <<".", "b", "a", "s", "h">>,
     <<".", "z", "s", "h">>}

ALLOWED_FILES ==
    {<<"D", "o", "c", "k", "e", "r", "f", "i", "l", "e">>,
     <<"M", "a", "k", "e", "f", "i", "l", "e">>, <<"R", "E", "A", "D", "M", "E">>,
     <<"L", "I", "C", "E", "N", "S", "E">>,
     <<".", "g", "i", "t", "i", "g", "n", "o", "r", "e">>}

BLOCKED_DIRS ==
    {<<"n", "o", "d", "e", "_", "m", "o", "d", "u", "l", "e", "s">>,
     <<"_", "_", "p", "y", "c", "a", "c", "h", "e", "_", "_">>, <<".", "g", "i", "t">>,
     <<"d", "i", "s", "t">>, <<"b", "u", "i", "l", "d">>, <<"v", "e", "n", "v">>,
     <<".", "v", "e", "n", "v">>, <<"e", "n", "v">>, <<".", "e", "n", "v">>,
     <<".", "i", "d", "e", "a">>, <<".", "v", "s", "c", "o", "d", "e">>,
     <<"c", "o", "v", "e", "r", "a", "g", "e">>, <<".", "n", "e", "x", "t">>,
     <<"t", "a", "r", "g", "e", "t">>, <<"b", "i", "n">>, <<"o", "b", "j">>,
     <<".", "g", "r", "a", "d", "l", "e">>, <<".", "m", "2">>,
     <<"v", "e", "n", "d", "o", "r">>, <<"P", "o", "d", "s">>, <<"t", "e", "s", "t">>,
     <<"t", "e", "s", "t", "s">>, <<"_", "_", "t", "e", "s", "t", "s", "_", "_">>,
     <<"s", "p", "e", "c">>, <<"s", "p", "e", "c", "s">>,
     <<"t", "e", "s", "t", "i", "n", "g">>, <<"t", "e", "s", "t", "_", "d", "a", "t", "a">>,
     <<"t", "e", "s", "t", "d", "a", "t", "a">>, <<"f", "i", "x", "t", "u", "r", "e", "s">>,
     <<"m", "o", "c", "k", "s">>, <<"m", "o", "c", "k">>, <<"e", "2", "e">>,
     <<"i", "n", "t", "e", "g", "r", "a", "t", "i", "o", "n">>, <<"u", "n", "i", "t">>,
     <<"c", "y", "p", "r", "e", "s", "s">>,
     <<"p", "l", "a", "y", "w", "r", "i", "g", "h", "t">>}

BLOCKED_PATTERNS ==
    {<<"p", "a", "c", "k", "a", "g", "e", "-", "l", "o", "c", "k", ".", "j", "s", "o", "n">>,
     <<"y", "a", "r", "n", ".", "l", "o", "c", "k">>,
     <<"p", "n", "p", "m", "-", "l", "o", "c", "k", ".", "y", "a", "m", "l">>,
     <<"c", "o", "m", "p", "o", "s", "e", "r", ".", "l", "o", "c", "k">>,
     <<"G", "e", "m", "f", "i", "l", "e", ".", "l", "o", "c", "k">>,
     <<"C", "a", "r", "g", "o", ".", "l", "o", "c", "k">>,
     <<"p", "o", "e", "t", "r", "y", ".", "l", "o", "c", "k">>,
     <<".", "D", "S", "_", "S", "t", "o", "r", "e">>,
     <<".", "e", "s", "l", "i", "n", "t", "r", "c">>,
     <<".", "p", "r", "e", "t", "t", "i", "e", "r", "r", "c">>,
     <<"t", "s", "c", "o", "n", "f", "i", "g", ".", "j", "s", "o", "n">>,
     <<"j", "e", "s", "t", ".", "c", "o", "n", "f", "i", "g", ".", "j", "s">>,
     <<"b", "a", "b", "e", "l", ".", "c", "o", "n", "f", "i", "g", ".", "j", "s">>,
     <<".", "b", "a", "b", "e", "l", "r", "c">>,
     <<"w", "e", "b", "p", "a", "c", "k", ".", "c", "o", "n", "f", "i", "g", ".", "j", "s">>,
     <<"v", "i", "t", "e", ".", "c", "o", "n", "f", "i", "g", ".", "j", "s">>,
     <<"s", "e", "t", "u", "p", ".", "c", "f", "g">>,
     <<"p", "y", "p", "r", "o", "j", "e", "c", "t", ".", "t", "o", "m", "l">>,
     <<"t", "o", "x", ".", "i", "n", "i">>,
     <<".", "c", "o", "v", "e", "r", "a", "g", "e", "r", "c">>}

TEST_FILE_PATTERNS ==
    {<<"t", "e", "s", "t", "_">>, <<"_", "t", "e", "s", "t", ".">>,
     <<".", "t", "e", "s", "t", ".">>, <<".", "s", "p", "e", "c", ".">>,
     <<"_", "s", "p", "e", "c", ".">>,
     <<"c", "o", "n", "f", "t", "e", "s", "t", ".", "p", "y">>,
     <<"p", "y", "t", "e", "s", "t", ".", "i", "n", "i">>,
     <<"s", "e", "t", "u", "p", ".", "p", "y">>}

MAX_FILE_SIZE == 50 * 1024
MAX_CONTEXT_SIZE == 3500000
LARGE_REPO_THRESHOLD == 10000000

\* skip_patterns (lines 170-171)
SkipPatterns ==
    {<<"e", "x", "a", "m", "p", "l", "e">>, <<"d", "e", "m", "o">>,
     <<"s", "a", "m", "p", "l", "e">>, <<"d", "o", "c", "/">>, <<"d", "o", "c", "s", "/">>,
     <<"t", "u", "t", "o", "r", "i", "a", "l">>,
     <<"b", "e", "n", "c", "h", "m", "a", "r", "k">>,
     <<"c", "o", "n", "t", "r", "i", "b", "/">>, <<"s", "c", "r", "i", "p", "t", "s", "/">>}

\* core_extensions (line 177)
CoreExtensions ==
    {<<".", "p", "y">>, <<".", "j", "s">>, <<".", "t", "s">>, <<".", "j", "s", "x">>,
     <<".", "t", "s", "x">>, <<".", "j", "a", "v", "a">>, <<".", "g", "o">>, <<".", "r", "s">>}

\* the last element of a non-empty sequence: parts[-1]
Last(parts) == parts[Len(parts)]

\* line 178: the extension of the file name, "" when it has no dot
Extension(filename) ==
    IF Contains(filename, <<".">>) THEN <<".">> \o Last(Split(filename, <<".">>))
    ELSE <<>>

\* as PassesAggressive, with the patterns looked for in the path as it is
\* written, not in its lower-cased form
PassesAggressiveCaseSensitive(file_path, filename) ==
    Bind(file_path, LAMBDA path_lower :
    Bind(Extension(filename), LAMBDA ext :
         /\ \A pattern \in SkipPatterns : ~Contains(path_lower, pattern)
         /\ ext = <<>> \/ ext \in CoreExtensions))

\* the checks of the aggressive mode (lines 167-180) let the file through
PassesAggressive(file_path, filename) ==
    Bind(ToLower(file_path), LAMBDA path_lower :
    Bind(Extension(filename), LAMBDA ext :
         /\ \A pattern \in SkipPatterns : ~Contains(path_lower, pattern)
         /\ ext = <<>> \/ ext \in CoreExtensions))

\* as IsAllowedFile, with the acceptance rules before the rejection rules
IsAllowedFileAcceptFirst(file_path, aggressive) ==
    Bind(Split(file_path, <<"/">>), LAMBDA path_parts :
    Bind(Last(path_parts), LAMBDA filename :
    Bind(ToLower(filename), LAMBDA filename_lower :
         IF filename \in ALLOWED_FILES THEN TRUE
         ELSE IF \E ext \in ALLOWED_EXTENSIONS : EndsWith(filename, ext) THEN TRUE
         ELSE IF filename \in BLOCKED_PATTERNS THEN FALSE
         ELSE IF \E i \in 1..(Len(path_parts) - 1) : path_parts[i] \in BLOCKED_DIRS
         THEN FALSE
         ELSE IF \E pattern \in TEST_FILE_PATTERNS : Contains(filename_lower, pattern)
         THEN FALSE
         ELSE IF aggressive /\ ~PassesAggressive(file_path, filename) THEN FALSE
         ELSE FALSE)))

\* _is_allowed_file
IsAllowedFile(file_path, aggressive) ==
    Bind(Split(file_path, <<"/">>), LAMBDA path_parts :
    Bind(Last(path_parts), LAMBDA filename :
    Bind(ToLower(filename), LAMBDA filename_lower :
         IF filename \in BLOCKED_PATTERNS THEN FALSE
         ELSE IF \E i \in 1..(Len(path_parts) - 1) : path_parts[i] \in BLOCKED_DIRS
         THEN FALSE
         ELSE IF \E pattern \in TEST_FILE_PATTERNS : Contains(filename_lower, pattern)
         THEN FALSE
         ELSE IF aggressive /\ ~PassesAggressive(file_path, filename) THEN FALSE
         ELSE IF filename \in ALLOWED_FILES THEN TRUE
         ELSE \E ext \in ALLOWED_EXTENSIONS : EndsWith(filename, ext))))

-----------------------------------------------------------------------------
(* The order in which _process_zip visits the files (repository.py 218-227). *)

\* the printable ASCII characters in the order of their code points, from 32
Ascii ==
    <<" ", "!", QUOTE, "#", "$", "%", "&", "'", "(", ")", "*", "+", ",",
      "-", ".", "/", "0", "1", "2", "3", "4", "5", "6", "7", "8", "9", ":",
      ";", "<", "=", ">", "?", "@", "A", "B", "C", "D", "E", "F", "G", "H",
      "I", "J", "K", "L", "M", "N", "O", "P", "Q", "R", "S", "T", "U", "V",
      "W", "X", "Y", "Z", "[", "\\", "]", "^", "_", BQ, "a", "b", "c", "d",
      "e", "f", "g", "h", "i", "j", "k", "l", "m", "n", "o", "p", "q", "r",
      "s", "t", "u", "v", "w", "x", "y", "z", "{", "|", "}", "~">>

\* ord(c) for these characters, the tab and the newline
CodePoint ==
    [c \in {Ascii[i] : i \in 1..Len(Ascii)} \cup {"\t", NL} |->
        IF c = NL THEN 10
        ELSE IF c = "\t" THEN 9
        ELSE 31 + (CHOOSE i \in 1..Len(Ascii) : Ascii[i] = c)]

\* p < q for two texts, as Python compares strings: at the first place where
\* they differ p has ended or has the smaller character
TextLess(p, q) ==
    \E i \in 1..Len(q) :
        /\ i - 1 <= Len(p)
        /\ \A j \in 1..(i - 1) : p[j] = q[j]
        /\ i > Len(p) \/ CodePoint[p[i]] < CodePoint[q[i]]

\* priority_dirs (line 221)
PriorityDirs ==
    {<<"s", "r", "c", "/">>, <<"l", "i", "b", "/">>, <<"c", "o", "r", "e", "/">>,
     <<"a", "p", "p", "/">>, <<"p", "k", "g", "/">>}

\* file_priority: the sort key of a path
FilePriority(path) ==
    Bind(ToLower(path), LAMBDA path_lower :
         [rank |-> IF \E pd \in PriorityDirs : Contains(path_lower, pd) THEN 0 ELSE 1,
          depth |-> CountChar(path, "/"),
          path |-> path])

\* a < b for two sort keys, as Python compares tuples
KeyLess(a, b) ==
    \/ a.rank < b.rank
    \/ a.rank = b.rank /\ a.depth < b.depth
    \/ a.rank = b.rank /\ a.depth = b.depth /\ TextLess(a.path, b.path)

\* sorted(file_list, key=file_priority) for a set of distinct paths
SortedFiles(file_list) ==
    Bind({FilePriority(p) : p \in file_list}, LAMBDA keys :
    Bind({<<k.path, Cardinality({j \in keys : KeyLess(j, k)})>> : k \in keys},
         LAMBDA ranked :
         [n \in 1..Cardinality(ranked) |-> (CHOOSE r \in ranked : r[2] = n - 1)[1]]))

-----------------------------------------------------------------------------
(* The content of a file is modelled as a sequence of runs, each a         *)
(* character and the number of times it is repeated, adjacent runs having  *)
(* different characters: a file of MAX_FILE_SIZE characters is one run.    *)

Run(c, n) == [c |-> c, n |-> n]

\* the elements of a set of numbers in ascending order
Ascending(S) ==
    Bind(S, LAMBDA T :
         [k \in 1..Cardinality(T) |->
             CHOOSE i \in T : Cardinality({j \in T : j < i}) = k - 1])

RECURSIVE SumRange(_, _, _)
\* sum(nums[lo..hi])
SumRange(nums, lo, hi) ==
    IF lo > hi THEN 0
    ELSE IF lo = hi THEN nums[lo]
    ELSE Bind((lo + hi) \div 2, LAMBDA mid :
         Bind(mid + 1, LAMBDA next :
              SumRange(nums, lo, mid) + SumRange(nums, next, hi)))

\* the number of characters in the runs lo..hi of t
RunLenRange(t, lo, hi) ==
    Bind([i \in 1..Len(t) |-> t[i].n], LAMBDA counts : SumRange(counts, lo, hi))

\* len(t)
RunLen(t) == Bind(t, LAMBDA runs : RunLenRange(runs, 1, Len(runs)))

\* the runs of t with adjacent runs of the same character made one
Canonical(t) ==
    Bind(t, LAMBDA runs :
    Bind([i \in 1..Len(runs) |-> runs[i].n], LAMBDA counts :
    Bind(Ascending({i \in 1..Len(runs) : i = 1 \/ runs[i].c # runs[i - 1].c}),
         LAMBDA starts :
         [k \in 1..Len(starts) |->
             Run(runs[starts[k]].c,
                 SumRange(counts, starts[k],
                          IF k = Len(starts) THEN Len(runs) ELSE starts[k + 1] - 1))])))

\* a text given by its characters, as runs
RunText(chars) ==
    Bind(chars, LAMBDA cs : Canonical([i \in 1..Len(cs) |-> Run(cs[i], 1)]))

\* a + b
RunCat(a, b) ==
    Bind(a, LAMBDA x :
    Bind(b, LAMBDA y :
         IF x = <<>> THEN y
         ELSE IF y = <<>> THEN x
         ELSE IF x[Len(x)].c = y[1].c
         THEN SubSeq(x, 1, Len(x) - 1) \o <<Run(y[1].c, x[Len(x)].n + y[1].n)>>
                  \o Tail(y)
         ELSE x \o y))

RECURSIVE JoinRange(_, _, _)
\* "".join(parts[lo..hi])
JoinRange(parts, lo, hi) ==
    IF lo > hi THEN <<>>
    ELSE IF lo = hi THEN parts[lo]
    ELSE Bind((lo + hi) \div 2, LAMBDA mid :
         Bind(mid + 1, LAMBDA next :
              RunCat(JoinRange(parts, lo, mid), JoinRange(parts, next, hi))))

\* "".join(parts)
JoinRuns(parts) == Bind(parts, LAMBDA ps : JoinRange(ps, 1, Len(ps)))

\* line 196: re.sub(r"\n{4,}", "\n\n\n", content)
CollapseBlankLines(t) ==
    Bind(t, LAMBDA runs :
         [i \in 1..Len(runs) |->
             IF runs[i].c = NL /\ runs[i].n >= 4 THEN Run(NL, 3) ELSE runs[i]])

\* lines 198-199 without the final strip: every line without the whitespace
\* at its end
RStripLines(t) ==
    Bind(t, LAMBDA runs :
    Bind({i \in 1..Len(runs) :
            \/ runs[i].c \notin Whitespace \ {NL}
            \/ \E j \in (i + 1)..Len(runs) :
                  /\ runs[j].c \notin Whitespace
                  /\ \A k \in (i + 1)..(j - 1) : runs[k].c \in Whitespace \ {NL}},
         LAMBDA keep : Bind(Ascending(keep), LAMBDA at :
              Canonical([k \in 1..Len(at) |-> runs[at[k]]]))))

\* t.strip()
StripRuns(t) ==
    Bind(t, LAMBDA runs :
    Bind({i \in 1..Len(runs) : runs[i].c \notin Whitespace}, LAMBDA keep :
         IF keep = {} THEN <<>> ELSE SubSeq(runs, MinOf(keep), MaxOf(keep))))

\* _clean_code
CleanCode(content) == StripRuns(RStripLines(CollapseBlankLines(content)))

\* line 251: the block of a file in the context
FileEntry(file_path, content) ==
    RunCat(RunCat(RunText(<<"<", "f", "i", "l", "e", " ", "n", "a", "m", "e", "=", QUOTE>>
                              \o file_path \o <<QUOTE, ">", NL>>),
                  content),
           RunText(<<NL, "<", "/", "f", "i", "l", "e", ">", NL, NL>>))

-----------------------------------------------------------------------------
(* RepositoryLoader._process_zip (repository.py 201-268).  An archive is   *)
(* the set of its entries: the path, the size in the directory of the      *)
(* archive, the content, and whether the entry can be read.                *)

IsDirectory(path) == EndsWith(path, <<"/">>)

\* zip_file.getinfo(path)
Entry(zip, path) == CHOOSE e \in zip : e.path = path

\* lines 207-211: the sum of the sizes of the entries that are not
\* directories; file_list names the entries, in any order
TotalSize(zip, file_list) ==
    Bind([k \in 1..Len(file_list) |->
             IF IsDirectory(file_list[k]) THEN 0 ELSE Entry(zip, file_list[k]).file_size],
         LAMBDA sizes : SumRange(sizes, 1, Len(sizes)))

\* ProcessingStats() and the empty list of blocks
NoFilesYet ==
    [file_contents |-> <<>>, files_processed |-> 0, files_skipped |-> 0,
     total_characters |-> 0, broke |-> FALSE]

\* as Skipped, without the count
SkippedUncounted(acc) == acc

\* stats.files_skipped += 1 (lines 235, 241, 249, 261)
Skipped(acc) == [acc EXCEPT !.files_skipped = @ + 1]

\* as AppendOrBreak, with `continue` for `break`: a file that does not fit is
\* passed over and the loop goes on
AppendOrContinue(acc, file_entry) ==
    Bind(file_entry, LAMBDA entry :
    Bind(RunLen(entry), LAMBDA length :
         IF acc.total_characters + length > MAX_CONTEXT_SIZE
         THEN acc
         ELSE [acc EXCEPT !.file_contents = Append(@, entry),
                          !.total_characters = @ + length,
                          !.files_processed = @ + 1]))

\* lines 251-258: the file's block is appended, or the loop is left
AppendOrBreak(acc, file_entry) ==
    Bind(file_entry, LAMBDA entry :
    Bind(RunLen(entry), LAMBDA length :
         IF acc.total_characters + length > MAX_CONTEXT_SIZE
         THEN [acc EXCEPT !.broke = TRUE]
         ELSE [acc EXCEPT !.file_contents = Append(@, entry),
                          !.total_characters = @ + length,
                          !.files_processed = @ + 1]))

\* one pass of the loop (lines 229-262), when the loop has not been left
VisitFile(zip, aggressive, file_path, acc) ==
    IF acc.broke \/ IsDirectory(file_path) THEN acc
    ELSE IF ~IsAllowedFile(file_path, aggressive) THEN Skipped(acc)
    ELSE Bind(Entry(zip, file_path), LAMBDA file_info :
         IF file_info.file_size > MAX_FILE_SIZE THEN Skipped(acc)
         ELSE IF ~file_info.readable THEN Skipped(acc)
         ELSE Bind(CleanCode(file_info.content), LAMBDA content :
              IF content = <<>> THEN Skipped(acc)
              ELSE AppendOrBreak(acc, FileEntry(file_path, content))))

RECURSIVE ProcessLoop(_, _, _, _, _, _)
\* the passes of the loop for the files lo..hi of the sorted list, from the
\* blocks and counts acc
ProcessLoop(zip, aggressive, sorted_files, lo, hi, acc) ==
    IF lo > hi \/ acc.broke THEN acc
    ELSE IF lo = hi THEN VisitFile(zip, aggressive, sorted_files[lo], acc)
    ELSE Bind((lo + hi) \div 2, LAMBDA mid :
         Bind(ProcessLoop(zip, aggressive, sorted_files, lo, mid, acc), LAMBDA half :
         Bind(mid + 1, LAMBDA next :
              ProcessLoop(zip, aggressive, sorted_files, next, hi, half))))

\* _process_zip: the context and the stats it returns
ProcessZip(zip) ==
    Bind(SortedFiles({e.path : e \in zip}), LAMBDA sorted_files :
    Bind(TotalSize(zip, sorted_files) > LARGE_REPO_THRESHOLD, LAMBDA aggressive :
    Bind(ProcessLoop(zip, aggressive, sorted_files, 1, Len(sorted_files), NoFilesYet),
         LAMBDA acc :
         [context |-> JoinRuns(acc.file_contents),
          stats |-> [files_processed |-> acc.files_processed,
                     files_skipped |-> acc.files_skipped,
                     total_characters |-> acc.total_characters,
                     estimated_tokens |-> acc.total_characters \div 4]])))

-----------------------------------------------------------------------------
(* RepositoryLoader.load_from_github and load_from_file (repository.py     *)
(* 55-100).                                                                *)

\* ProcessingResult (lines 39-45), as a call returns it
ProcessingResult(context, error, stats, repo_name) ==
    [kind |-> "returned", context |-> context, error |-> error, stats |-> stats,
     repo_name |-> repo_name]

\* a call that raised instead of returning
Raised == [kind |-> "raised"]

RECURSIVE DownloadLoop(_, _, _)
\* the loop of _download_github_repo (lines 126-137) from the n-th branch
\* on; resps[n] is what the n-th request meets
DownloadLoop(target, n, resps) ==
    Bind(AfterResponse(target, n, ArchiveUrl(target.clean_url, Branches[n]), resps[n]),
         LAMBDA after :
         IF after.pc = "done" THEN after.result
         ELSE Bind(n + 1, LAMBDA next : DownloadLoop(target, next, resps)))

\* _download_github_repo as one call (lines 102-144)
DownloadGithubRepo(url, resps) ==
    Bind(DownloadTarget(url), LAMBDA target :
         IF target.error # None THEN DownloadFailed(target.error[1])
         ELSE DownloadLoop(target, 1, resps))

NoValidFilesInRepository ==
    <<"N", "o", " ", "v", "a", "l", "i", "d", " ", "c", "o", "d", "e",
      " ", "f", "i", "l", "e", "s", " ", "f", "o", "u", "n", "d", " ",
      "i", "n", " ", "r", "e", "p", "o", "s", "i", "t", "o", "r", "y",
      ".">>

NoValidFilesInZip ==
    <<"N", "o", " ", "v", "a", "l", "i", "d", " ", "c", "o", "d", "e",
      " ", "f", "i", "l", "e", "s", " ", "f", "o", "u", "n", "d", " ",
      "i", "n", " ", "Z", "I", "P", ".">>

InvalidZipText ==
    <<"I", "n", "v", "a", "l", "i", "d", " ", "Z", "I", "P", " ", "a",
      "r", "c", "h", "i", "v", "e", ".">>

\* as LoadFromGithub, without the test of line 74: an empty context is
\* returned as a success
LoadFromGithubEmptySuccess(url, download, zip_file) ==
    IF Truthy(download.error)
    THEN ProcessingResult(None, download.error, None, <<>>)
    ELSE IF download.zip = None THEN Raised
    ELSE Bind(RepoMatch(url), LAMBDA match :
         Bind(ProcessZip(zip_file), LAMBDA r :
              ProcessingResult(Some(r.context), None, Some(r.stats),
                               IF match.found
                               THEN match.owner \o <<"/">> \o match.repo
                               ELSE url)))

\* load_from_github (lines 64-78) after the download has returned
\* `download`; zip_file is the archive that was downloaded, if one was.  With
\* no error and no archive, _process_zip(None) raises.
LoadFromGithub(url, download, zip_file) ==
    IF Truthy(download.error)
    THEN ProcessingResult(None, download.error, None, <<>>)
    ELSE IF download.zip = None THEN Raised
    ELSE Bind(RepoMatch(url), LAMBDA match :
         Bind(ProcessZip(zip_file), LAMBDA r :
              IF r.context = <<>>
              THEN ProcessingResult(None, Some(NoValidFilesInRepository), None, <<>>)
              ELSE ProcessingResult(Some(r.context), None, Some(r.stats),
                                    IF match.found
                                    THEN match.owner \o <<"/">> \o match.repo
                                    ELSE url)))

\* what zipfile.ZipFile(file_path) does: it opens the archive, raises
\* BadZipFile, or raises another exception (no such file)
OpenOutcomes == {"zip", "bad_zip", "os_error"}

NoSuchFileText ==
    <<"N", "o", " ", "s", "u", "c", "h", " ", "f", "i", "l", "e">>

\* load_from_file (lines 89-100)
LoadFromFile(file_path, opened, zip_file) ==
    IF opened = "bad_zip"
    THEN ProcessingResult(None, Some(InvalidZipText), None, <<>>)
    ELSE IF opened = "os_error"
    THEN ProcessingResult(None, Some(GenericErrorPrefix \o NoSuchFileText), None, <<>>)
    ELSE Bind(ProcessZip(zip_file), LAMBDA r :
              IF r.context = <<>>
              THEN ProcessingResult(None, Some(NoValidFilesInZip), None, <<>>)
              ELSE ProcessingResult(Some(r.context), None, Some(r.stats),
                                    PathStem(file_path)))

-----------------------------------------------------------------------------
(* DiagramGenerator.get_history and _load_metadata (diagram.py 332-401).   *)
(* A metadata file holds a JSON object, or cannot be read.                 *)

RawUnderscore == RawPrefix \o <<"_">>

\* the index of the last '.' of a file name that has a suffix, else 0
SuffixStart(name) ==
    Bind({i \in 2..(Len(name) - 1) : name[i] = "."}, LAMBDA dots :
         IF dots = {} THEN 0 ELSE MaxOf(dots))

\* Path.suffix and Path.stem of a file name
PathSuffix(name) ==
    Bind(SuffixStart(name), LAMBDA i : IF i = 0 THEN <<>> ELSE SubSeq(name, i, Len(name)))
StemOf(name) ==
    Bind(SuffixStart(name), LAMBDA i : IF i = 0 THEN name ELSE SubSeq(name, 1, i - 1))

\* lines 348-349 and 358-359: f.stem.replace("raw_", "").split("_")
NameParts(filename) ==
    Bind(ReplaceAll(StemOf(filename), RawUnderscore, <<>>), LAMBDA name :
         Split(name, <<"_">>))

\* lines 347-352: extract_timestamp
ExtractTimestamp(filename) ==
    Bind(NameParts(filename), LAMBDA parts :
         IF Len(parts) >= 2 THEN parts[Len(parts) - 1] \o parts[Len(parts)]
         ELSE <<"0">>)

\* line 344: the files of the directory that are listed, in the order in
\* which iterdir gives them
HistoryFiles(order) ==
    SelectSeq(order, LAMBDA f : StartsWith(f, RawUnderscore) /\ PathSuffix(f) = DotSuffix)

\* as InsertNewestFirst, for a sort without reverse=True: the file is put
\* before the first file with a larger key
InsertOldestFirst(sorted, keyed) ==
    Bind({i \in 1..Len(sorted) : TextLess(keyed.key, sorted[i].key)}, LAMBDA newer :
         IF newer = {} THEN Append(sorted, keyed)
         ELSE Bind(MinOf(newer), LAMBDA i :
                   SubSeq(sorted, 1, i - 1) \o <<keyed>> \o SubSeq(sorted, i, Len(sorted))))

\* `sorted` with a file and its key put in: before the first file with a
\* smaller key, so that files with equal keys stay in the order in which
\* they come
InsertNewestFirst(sorted, keyed) ==
    Bind({i \in 1..Len(sorted) : TextLess(sorted[i].key, keyed.key)}, LAMBDA older :
         IF older = {} THEN Append(sorted, keyed)
         ELSE Bind(MinOf(older), LAMBDA i :
                   SubSeq(sorted, 1, i - 1) \o <<keyed>> \o SubSeq(sorted, i, Len(sorted))))

RECURSIVE SortKeyed(_)
SortKeyed(keyed) ==
    IF keyed = <<>> THEN <<>>
    ELSE Bind(SortKeyed(SubSeq(keyed, 1, Len(keyed) - 1)), LAMBDA sorted :
              InsertNewestFirst(sorted, keyed[Len(keyed)]))

\* line 354: files.sort(key=extract_timestamp, reverse=True), a stable sort;
\* the key of each file is computed once
SortNewestFirst(files) ==
    Bind(SortKeyed([k \in 1..Len(files) |->
                       [key |-> ExtractTimestamp(files[k]), file |-> files[k]]]),
         LAMBDA sorted : [k \in 1..Len(sorted) |-> sorted[k].file])

\* lines 391-401: the object in the metadata file, None when there is no
\* file or when reading it fails
LoadMetadata(dir, dot_filename, unreadable) ==
    Bind(StemOf(dot_filename) \o JsonSuffix, LAMBDA meta_filename :
         IF meta_filename \notin DOMAIN dir \/ meta_filename \in unreadable THEN None
         ELSE dir[meta_filename])

LocalName == <<"l", "o", "c", "a", "l">>

\* line 369
FormattedTimestamp(date_part, time_part) ==
    SubSeq(date_part, 1, 4) \o <<"-">> \o SubSeq(date_part, 5, 6) \o <<"-">>
    \o SubSeq(date_part, 7, 8) \o <<" ">> \o SubSeq(time_part, 1, 2) \o <<":">>
    \o SubSeq(time_part, 3, 4)

\* lines 376-387: the DiagramInfo of a file; `metadata` is None, or a dict
DiagramInfo(filename, repo_name, date_part, time_part, metadata) ==
    [filename |-> filename,
     repo_name |-> IF metadata # NoDict
                   THEN DictGet(metadata, "repo_name", repo_name) ELSE repo_name,
     timestamp |-> date_part \o <<"_">> \o time_part,
     formatted_timestamp |-> FormattedTimestamp(date_part, time_part),
     file_path |-> filename,
     model_name |-> IF metadata # NoDict THEN DictGet(metadata, "model_name", <<>>) ELSE <<>>,
     files_processed |-> IF metadata # NoDict
                         THEN DictGet(metadata, "files_processed", 0) ELSE 0,
     total_characters |-> IF metadata # NoDict
                          THEN DictGet(metadata, "total_characters", 0) ELSE 0,
     node_count |-> IF metadata # NoDict THEN DictGet(metadata, "node_count", 0) ELSE 0,
     edge_count |-> IF metadata # NoDict THEN DictGet(metadata, "edge_count", 0) ELSE 0]

\* lines 358-387, one pass of the loop: what is appended to `diagrams`
HistoryEntry(dir, filename, unreadable) ==
    Bind(NameParts(filename), LAMBDA parts :
    Bind(Len(parts), LAMBDA n :
         IF n >= 2 /\ Len(parts[n - 1]) = 8 /\ Len(parts[n]) = 6
         THEN <<DiagramInfo(filename,
                            IF n > 2 THEN parts[n - 2] ELSE LocalName,
                            parts[n - 1], parts[n],
                            LoadMetadata(dir, filename, unreadable))>>
         ELSE <<>>))

\* get_history(limit) on a directory that exists: `order` is the order in
\* which iterdir gives the files, `unreadable` the metadata files whose
\* reading fails
GetHistory(dir, order, unreadable, limit) ==
    Bind(SortNewestFirst(HistoryFiles(order)), LAMBDA files :
    Bind(Take(files, limit), LAMBDA shown :
         Flatten([k \in 1..Len(shown) |-> HistoryEntry(dir, shown[k], unreadable)])))

-----------------------------------------------------------------------------
(* The parts of the state a specification does not use stay as they start. *)

NoCall == [op |-> "none"]

TextIdle ==
    /\ dot_in = <<>>
    /\ dot_mid = <<>>
    /\ dot_out = <<>>
    /\ dot_op = "none"

RenderIdle ==
    /\ diagrams_dir = <<>>
    /\ clock = 0
    /\ render_call = NoCall
    /\ html = NoHtml

SessionIdle ==
    /\ session_file = NoFile
    /\ config = NewConfig([gemini |-> "", openai |-> "", elevenlabs |-> ""])
    /\ ui_op = "none"
    /\ saved_keys = {}
    /\ pending_run = NotRunning

DownloadIdle ==
    /\ dl_url = <<>>
    /\ dl_pc = "idle"
    /\ dl_log = <<>>
    /\ dl_result = NoDownloadResult

ZipIdle ==
    /\ zip_archive = {}
    /\ zip_pc = "idle"
    /\ zip_context = <<>>
    /\ zip_stats = NoDict

HistoryIdle == writers = <<>> /\ history_list = <<>>

OutsideDiagramIdle == SessionIdle /\ DownloadIdle /\ ZipIdle /\ HistoryIdle

OutsideSessionIdle ==
    TextIdle /\ RenderIdle /\ DownloadIdle /\ ZipIdle /\ HistoryIdle

OutsideDownloadIdle ==
    TextIdle /\ RenderIdle /\ SessionIdle /\ ZipIdle /\ HistoryIdle

OutsideZipIdle ==
    TextIdle /\ RenderIdle /\ SessionIdle /\ DownloadIdle /\ HistoryIdle

OutsideHistoryIdle ==
    /\ TextIdle
    /\ render_call = NoCall
    /\ html = NoHtml
    /\ history_list = <<>>
    /\ SessionIdle
    /\ DownloadIdle
    /\ ZipIdle

-----------------------------------------------------------------------------
(* The pure-function harness for _sanitize_dot.                            *)

MaxSanTokens == 4

SanTokens ==
    {<<"{">>, <<"}">>, Arrow, <<"A">>, <<NL>>, <<"#">>, <<"<">>, <<">">>,
     <<";">>, <<" ">>}

\* digraph G { A -> B -> }
DanglingChainText ==
    <<"d", "i", "g", "r", "a", "p", "h", " ", "G", " ", "{", " ",
      "A", " ", "-", ">", " ", "B", " ", "-", ">", " ", "}">>

\* two lines: "digraph G {" and "{ A ->"
DroppedBraceText ==
    <<"d", "i", "g", "r", "a", "p", "h", " ", "G", " ", "{", NL, "{",
      " ", "A", " ", "-", ">">>

SanInputs ==
    {Flatten(ts) : ts \in SeqsUpTo(SanTokens, MaxSanTokens)}
        \cup {DanglingChainText, DroppedBraceText}

InitSanitize ==
    /\ dot_in \in SanInputs
    /\ dot_mid = <<>>
    /\ dot_out = <<>>
    /\ dot_op = "none"
    /\ RenderIdle
    /\ OutsideDiagramIdle

CallSanitize ==
    /\ dot_op = "none"
    /\ LET r == SanitizeDot(dot_in)
       IN  /\ dot_out' = r.text
           /\ dot_op' = IF r.raised THEN "raised" ELSE "sanitize"
    /\ UNCHANGED <<dot_in, dot_mid>>
    /\ UNCHANGED renderVars
    /\ UNCHANGED outsideDiagram

NextSanitize == CallSanitize

SpecSanitize == InitSanitize /\ [][NextSanitize]_vars

\* C1: when the text has N > 0 more '{' than '}', the sanitized text ends
\* with N appended '}' and has as many '{' as '}'; when N <= 0 no '}' is
\* appended.
C1_BracesBalanced ==
    dot_op = "sanitize" =>
        LET N == BraceDelta(dot_in)
        IN  /\ N > 0 =>
                /\ EndsWith(dot_out, <<NL>> \o Repeat("}", N))
                /\ CountChar(dot_out, "{") = CountChar(dot_out, "}")
            /\ N <= 0 => CountChar(dot_out, "}") <= CountChar(dot_in, "}")

\* an edge operator at position i of s whose right-hand side is empty: only
\* whitespace follows it up to the end, a ';' or a '}'
DanglingAt(s, i) ==
    LET rest == LStrip(Drop(s, i + 1))
    IN  rest = <<>> \/ Head(rest) \in {";", "}"}

HasDanglingEdge(s) == \E i \in Occurrences(s, Arrow) : DanglingAt(s, i)

\* C2: the sanitized text has no edge operator with an empty right-hand
\* side, in particular for the text `digraph G { A -> B -> }`.
C2_NoDanglingEdge ==
    dot_op = "sanitize" => ~HasDanglingEdge(dot_out)

\* the line has a '<' and, later and not right after it, a '>'
HasMarkup(line) ==
    \E i, j \in 1..Len(line) : line[i] = "<" /\ line[j] = ">" /\ j >= i + 2

\* C13: no line of the sanitized text, comment lines included, has a '<'
\* followed later on the line by a '>' with at least one character between
\* them.
C13_NoMarkupOnAnyLine ==
    dot_op = "sanitize" =>
        \A line \in {Split(dot_out, <<NL>>)[k] : k \in 1..Len(Split(dot_out, <<NL>>))} :
            ~HasMarkup(line)

-----------------------------------------------------------------------------
(* Calls of render, and of the MCP tool analyze_codebase.                  *)

MaxRenderTokens == 2

RenderTokens ==
    {ErrorPrefix, <<"4", "2", "9">>, KwDigraph \o <<" ", "G", " ", "{">>,
     <<"A", "-", ">", "B">>, <<"}">>, <<"<", "b", ">">>}

\* an error response longer than the fallback view shows
LongErrorText == KwError \o <<" ", "4", "2", "9", " ">> \o Repeat(".", FallbackLimit)

RenderInputs ==
    {Flatten(ts) : ts \in SeqsUpTo(RenderTokens, MaxRenderTokens)} \cup {LongErrorText}

\* LayoutOptions.from_ui("Left -> Right", "ortho", 1, 0.25, 1.5)
OrthoLayout ==
    [direction |-> <<"L", "R">>, splines |-> KwOrtho, nodesep |-> <<"1">>,
     ranksep |-> <<"0", ".", "2", "5">>, zoom |-> <<"1", ".", "5">>]

Layouts == {DefaultLayout, OrthoLayout}

OctoCat == <<"o", "c", "t", "o", "/", "c", "a", "t">>

\* the metadata process_pending_request passes (src/src/ui/app.py 389-393)
SampleMetadata ==
    [model_name |-> <<"G", "P", "T">>, files_processed |-> 2, total_characters |-> 9]

InitRender ==
    /\ dot_in \in RenderInputs
    /\ dot_mid = <<>>
    /\ dot_out = <<>>
    /\ dot_op = "none"
    /\ RenderIdle
    /\ OutsideDiagramIdle

\* generator.render(dot_source, layout, repo_name, save_to_history, metadata)
CallRender ==
    /\ dot_op = "none"
    /\ \E layout \in Layouts, save \in BOOLEAN, gv \in BOOLEAN, ok \in BOOLEAN :
       \E repo \in (IF save THEN {<<>>, OctoCat} ELSE {<<>>}),
          meta \in (IF save THEN {NoDict, SampleMetadata} ELSE {NoDict}),
          io \in (IF save THEN IoOutcomes ELSE {"ok"}) :
          \E c \in {[op |-> "render", dot_source |-> dot_in, layout |-> layout,
                     repo_name |-> repo, save_to_history |-> save,
                     metadata |-> meta, now |-> clock, io |-> io,
                     graphviz_available |-> gv, renderer_ok |-> ok]} :
          \E r \in {RenderResult(diagrams_dir, c)} :
              /\ render_call' = c
              /\ html' = r.html
              /\ diagrams_dir' = r.dir
    /\ dot_op' = "render"
    /\ UNCHANGED <<dot_in, dot_mid, dot_out, clock>>
    /\ UNCHANGED outsideDiagram

\* CodeAnalyzer.generate_diagram answers with a stripped text that names a
\* graph, or with an error (src/src/core/analyzer.py 210-224)
IsAnalysisContent(content) == Contains(content, KwGraph) /\ Strip(content) = content

EmptyResponseText ==
    <<"E", "m", "p", "t", "y", " ", "r", "e", "s", "p", "o", "n", "s",
      "e", " ", "f", "r", "o", "m", " ", "A", "I">>

NotFoundText ==
    <<"R", "e", "p", "o", "s", "i", "t", "o", "r", "y", " ", "n", "o",
      "t", " ", "f", "o", "u", "n", "d", ":", " ", "o", "c", "t", "o",
      "/", "c", "a", "t">>

\* analyze_codebase(api_key, github_url, file_path, model_name)
CallAnalyzeCodebase ==
    /\ dot_op = "none"
    /\ \E source \in BOOLEAN, key \in BOOLEAN, load_error \in {None, Some(NotFoundText)} :
       \E analysis_error \in (IF IsAnalysisContent(dot_in)
                               THEN {None, Some(EmptyResponseText)}
                               ELSE {Some(EmptyResponseText)}),
          repo \in {<<>>, OctoCat}, io \in {"ok", "dot_fails"} :
          \E c \in {[op |-> "analyze_codebase", source_given |-> source,
                     api_key_given |-> key, load_error |-> load_error,
                     repo_name |-> repo, analysis_error |-> analysis_error,
                     content |-> dot_in, now |-> clock, io |-> io]} :
          \E r \in {AnalyzeCodebase(diagrams_dir, c)} :
              /\ render_call' = c
              /\ dot_out' = r.text
              /\ diagrams_dir' = r.dir
    /\ dot_op' = "analyze_codebase"
    /\ UNCHANGED <<dot_in, dot_mid, clock, html>>
    /\ UNCHANGED outsideDiagram

NextRender == CallRender \/ CallAnalyzeCodebase

SpecRender == InitRender /\ [][NextRender]_vars

\* the name of the diagram file the call that has run writes
SavedFile == DiagramFilename(RawPrefix, render_call.repo_name, Timestamp(render_call.now))

\* the call of render reached its save and the diagram file could be written
RenderSaves ==
    /\ dot_op = "render"
    /\ render_call.save_to_history
    /\ render_call.graphviz_available
    /\ ~StartsWith(dot_in, ErrorPrefix)
    /\ render_call.io # "dot_fails"

\* the call of analyze_codebase reached its save and the file could be written
AnalyzeSaves ==
    /\ dot_op = "analyze_codebase"
    /\ render_call.source_given
    /\ render_call.api_key_given
    /\ render_call.load_error = None
    /\ render_call.analysis_error = None
    /\ render_call.io # "dot_fails"

IsRepaired(s) == ~IsRateLimited(s) /\ SanitizeText(s) = s

Displayable == {"diagram", "error", "fallback"}

\* the save of the call of render was reached and failed
RenderSaveFailed ==
    /\ dot_op = "render"
    /\ render_call.save_to_history
    /\ render_call.graphviz_available
    /\ ~StartsWith(dot_in, ErrorPrefix)
    /\ \/ render_call.io = "dot_fails"
       \/ render_call.io = "meta_fails" /\ render_call.metadata # NoDict

\* C4 (amended): render always returns displayable HTML: the error display
\* when the source starts with 'Error:'; else the fallback view of the first
\* 2000 characters of the source, without an error message, when the
\* renderer is unavailable; else the fallback view of the first 2000
\* characters of the prepared source with the error message when the
\* rate-limit short-circuit fires; else the fallback view of the first 2000
\* characters of the laid-out source with the error message when the external
\* renderer fails; else the rendered diagram. A failed save to history
\* changes nothing of this.
C4_RenderAlwaysDisplays ==
    dot_op = "render" =>
        /\ html.kind \in Displayable
        /\ IF StartsWith(dot_in, ErrorPrefix)
           THEN html.kind = "error" /\ html.text = dot_in
           ELSE IF ~render_call.graphviz_available
           THEN /\ html.kind = "fallback"
                /\ html.text = Take(dot_in, FallbackLimit)
                /\ html.error = None
           ELSE IF IsRateLimited(PrepareDot(dot_in))
           THEN /\ html.kind = "fallback"
                /\ html.text = Take(PrepareDot(dot_in), FallbackLimit)
                /\ html.error = Some(RateLimitedText)
           ELSE IF ~render_call.renderer_ok
           THEN /\ html.kind = "fallback"
                /\ html.text = Take(ApplyLayout(SanitizeText(PrepareDot(dot_in)),
                                                render_call.layout), FallbackLimit)
                /\ html.error = Some(RendererFailedText)
           ELSE html.kind = "diagram"

\* render returned the diagram although its save to history failed
C4_DiagramDespiteFailedSave == RenderSaveFailed /\ html.kind = "diagram"

\* C4 as claimed: render returns displayable HTML, and it is the fallback
\* view when the renderer is unavailable, when the rate-limit short-circuit
\* fires, when the external renderer fails or when saving to history fails.
C4_FallbackOnEveryFailure ==
    dot_op = "render" =>
        /\ html.kind \in Displayable
        /\ StartsWith(dot_in, ErrorPrefix) => html.kind = "error"
        /\ (/\ ~StartsWith(dot_in, ErrorPrefix)
            /\ \/ ~render_call.graphviz_available
               \/ IsRateLimited(PrepareDot(dot_in))
               \/ ~render_call.renderer_ok
               \/ RenderSaveFailed)
              => html.kind = "fallback"

-----------------------------------------------------------------------------
(* The pure-function harness for _prepare_dot.                             *)

MaxPrepTokens == 4

PrepTokens == {Fence, <<NL>>, <<" ">>, KwGraph, <<"x">>}

PrepInputs == {Flatten(ts) : ts \in SeqsUpTo(PrepTokens, MaxPrepTokens)}

InitPrepare ==
    /\ dot_in \in PrepInputs
    /\ dot_mid = <<>>
    /\ dot_out = <<>>
    /\ dot_op = "none"
    /\ RenderIdle
    /\ OutsideDiagramIdle

CallPrepare ==
    /\ dot_op = "none"
    /\ dot_mid' = PrepareDot(dot_in)
    /\ dot_out' = PrepareDot(dot_in)
    /\ dot_op' = "prepare"
    /\ UNCHANGED dot_in
    /\ UNCHANGED renderVars
    /\ UNCHANGED outsideDiagram

CallPrepareAgain ==
    /\ dot_op = "prepare"
    /\ dot_out' = PrepareDot(dot_mid)
    /\ dot_op' = "prepare2"
    /\ UNCHANGED <<dot_in, dot_mid>>
    /\ UNCHANGED renderVars
    /\ UNCHANGED outsideDiagram

\* render, lines 113 and 120: the prepared text goes through _sanitize_dot
CallSanitizePrepared ==
    /\ dot_op = "prepare"
    /\ LET r == SanitizeDot(dot_mid)
       IN  /\ dot_out' = r.text
           /\ dot_op' = IF r.raised THEN "raised" ELSE "prepare_sanitize"
    /\ UNCHANGED <<dot_in, dot_mid>>
    /\ UNCHANGED renderVars
    /\ UNCHANGED outsideDiagram

NextPrepare == CallPrepare \/ CallPrepareAgain \/ CallSanitizePrepared

SpecPrepare == InitPrepare /\ [][NextPrepare]_vars

\* C10: for a text that starts with a markdown fence, preparing the prepared
\* text again gives the same text as preparing once.
C10_UnwrapIdempotent ==
    (dot_op = "prepare2" /\ StartsWith(Strip(dot_in), Fence)) => dot_out = dot_mid

\* the first thing in the text, after blank space, is the keyword of a graph
\* declaration
BeginsWithDeclaration(s) ==
    LET first == LStrip(s)
    IN  StartsWith(first, KwDigraph) \/ StartsWith(first, KwGraph)

\* C12: for any raw text, the text after _prepare_dot and _sanitize_dot
\* begins with a 'digraph' or 'graph' declaration, also when the raw text
\* only has the letters 'graph' somewhere in it.
C12_BeginsWithDeclaration ==
    dot_op = "prepare_sanitize" => BeginsWithDeclaration(dot_out)

\* C11: for a text with no graph keyword in it, _prepare_dot returns
\* 'digraph G {', a newline, the content, a newline and '}', where the
\* content is the text after trimming and after the removal of the fence
\* lines; the result names a graph exactly once, and the content is a part
\* of the text as it was given.
C11_WrappedOnce ==
    (dot_op = "prepare" /\ ~Contains(dot_in, KwGraph))
    => \E content \in {RemoveFences(Strip(dot_in))} :
          /\ dot_out = WrapperOpen \o content \o WrapperClose
          /\ Cardinality(Occurrences(dot_out, KwGraph)) = 1
          /\ Contains(dot_in, content)

\* a fenced text without a graph keyword has been prepared: the fence line
\* is gone and the line after it is wrapped
C11_FencedTextWrapped ==
    /\ dot_op = "prepare"
    /\ dot_in = Fence \o <<NL, "x", " ">>
    /\ dot_out = WrapperOpen \o <<"x">> \o WrapperClose

-----------------------------------------------------------------------------
(* The handlers of the UI that write the session state file.               *)

ApiKeys == {"", "sk"}
ModelChoices == {DefaultModel, OpenAiModel}

GithubUrl ==
    <<"h", "t", "t", "p", "s", ":", "/", "/", "g", "i", "t", "h", "u",
      "b", ".", "c", "o", "m", "/", "o", "c", "t", "o", "/", "c", "a",
      "t">>

UploadPath ==
    <<"/", "t", "m", "p", "/", "u", "p", ".", "z", "i", "p">>

SampleDot == <<"d", "i", "g", "r", "a", "p", "h", " ", "G", " ", "{", "}">>

\* ProcessingStats.as_dict of a small repository
SampleStats ==
    [files_processed |-> 2, files_skipped |-> 1, total_characters |-> 9,
     estimated_tokens |-> 2]

\* the environment the server starts in
Environments ==
    {[gemini |-> g, openai |-> "", elevenlabs |-> ""] : g \in ApiKeys}

\* the session files an earlier run of the server may have left
EarlierFiles ==
    {NoFile,
     [exists |-> TRUE,
      data |-> [DefaultSession EXCEPT !.api_key = "sk", !.dot_source = Some(SampleDot),
                                      !.repo_name = UrlDisplayName(GithubUrl),
                                      !.stats = SampleStats]]}

\* create_app: get_config() builds the global Config from the environment
\* and the session file
InitSession ==
    /\ session_file \in EarlierFiles
    /\ \E env \in Environments : config = LoadFromSession(NewConfig(env), session_file)
    /\ ui_op = "none"
    /\ saved_keys = {}
    /\ pending_run = NotRunning
    /\ OutsideSessionIdle

\* save_settings (app.py 637-649)
SaveSettings ==
    \E gemini_key \in ApiKeys, openai_key \in ApiKeys, elevenlabs_key \in ApiKeys,
       io \in WriteOutcomes :
        /\ session_file' = SaveSessionState(session_file,
                               [api_key |-> gemini_key, openai_api_key |-> openai_key,
                                elevenlabs_api_key |-> elevenlabs_key], io)
        /\ config' = IF io = "ok"
                     THEN [config EXCEPT !.gemini_api_key = gemini_key,
                                         !.openai_api_key = openai_key,
                                         !.elevenlabs_api_key = elevenlabs_key]
                     ELSE config
        /\ ui_op' = "save_settings"
        /\ saved_keys' = {"api_key", "openai_api_key", "elevenlabs_api_key"}
        /\ UNCHANGED pending_run
        /\ UNCHANGED outsideSession

\* on_model_change, the model selector of the Generate page (app.py 196-199)
OnModelChange ==
    \E model \in ModelChoices, io \in WriteOutcomes, config_io \in WriteOutcomes :
        /\ config' = [config EXCEPT !.current_model = model]
        /\ session_file' =
               SaveToSession(config',
                             SaveSessionState(session_file, [model |-> model], io),
                             config_io)
        /\ ui_op' = "on_model_change"
        /\ saved_keys' = {"model"}
        /\ UNCHANGED pending_run
        /\ UNCHANGED outsideSession

\* explore_model.change (app.py 576-579)
ExploreModelChange ==
    \E m \in ModelChoices, io \in WriteOutcomes :
        /\ session_file' = SaveSessionState(session_file, [model |-> m], io)
        /\ ui_op' = "explore_model_change"
        /\ saved_keys' = {"model"}
        /\ UNCHANGED <<config, pending_run>>
        /\ UNCHANGED outsideSession

\* settings_model.change (app.py 660-663)
SettingsModelChange ==
    \E m \in ModelChoices, io \in WriteOutcomes :
        /\ session_file' = SaveSessionState(session_file, [model |-> m], io)
        /\ ui_op' = "settings_model_change"
        /\ saved_keys' = {"model"}
        /\ UNCHANGED <<config, pending_run>>
        /\ UNCHANGED outsideSession

NoInputText ==
    <<"P", "l", "e", "a", "s", "e", " ", "e", "n", "t", "e", "r", " ",
      "a", " ", "G", "i", "t", "H", "u", "b", " ", "U", "R", "L", " ",
      "o", "r", " ", "u", "p", "l", "o", "a", "d", " ", "a", " ", "Z",
      "I", "P", " ", "f", "i", "l", "e">>

NoKeyConfiguredText ==
    <<"A", "P", "I", " ", "K", "e", "y", " ", "n", "o", "t", " ", "c",
      "o", "n", "f", "i", "g", "u", "r", "e", "d", ".", " ", "P", "l",
      "e", "a", "s", "e", " ", "g", "o", " ", "t", "o", " ", "S", "e",
      "t", "t", "i", "n", "g", "s", " ", "f", "i", "r", "s", "t", ".">>

\* the message of the gr.Error start_analysis raises (app.py 152-157), None
\* when it raises none; `file` is the session file
StartAnalysisError(file, file_path, github_url) ==
    IF ~Truthy(file_path) /\ (~Truthy(github_url) \/ Strip(github_url[1]) = <<>>)
    THEN Some(NoInputText)
    ELSE IF DictGet(LoadSessionState(file), "api_key", "") = ""
    THEN Some(NoKeyConfiguredText)
    ELSE None

\* what start_analysis saves (app.py 160-169)
StartAnalysisData(file_path, github_url, selected_model) ==
    [model |-> selected_model,
     pending_request |->
         Some([github_url |-> IF Truthy(github_url)
                              THEN Some(Strip(github_url[1]))
                              ELSE None,
               file_path |-> file_path]),
     dot_source |-> None, repo_name |-> <<>>, stats |-> NoDict]

\* start_analysis (app.py 148-171): gr.Error is raised, and nothing saved,
\* when there is no input or no API key
StartAnalysis ==
    \E file_path \in {None, Some(UploadPath)},
       github_url \in {None, Some(<<>>), Some(<<" ">>), Some(GithubUrl \o <<" ">>)},
       selected_model \in ModelChoices, io \in WriteOutcomes :
        /\ IF StartAnalysisError(session_file, file_path, github_url) # None
           THEN /\ UNCHANGED session_file
                /\ saved_keys' = {}
           ELSE /\ session_file' =
                       SaveSessionState(session_file,
                           StartAnalysisData(file_path, github_url, selected_model),
                           io)
                /\ saved_keys' = {"model", "pending_request", "dot_source",
                                  "repo_name", "stats"}
        /\ ui_op' = "start_analysis"
        /\ UNCHANGED <<config, pending_run>>
        /\ UNCHANGED outsideSession

\* whether process_pending_request finds a request to run (app.py 298)
HasPending(session) ==
    /\ DictGet(session, "pending_request", None) # None
    /\ \/ Truthy(session.pending_request[1].github_url)
       \/ Truthy(session.pending_request[1].file_path)

\* the API key process_pending_request uses (app.py 322-337)
RequestApiKey(session) ==
    IF IsOpenAiModel(GetModelId(DictGet(session, "model", DefaultModel)))
    THEN DictGet(session, "openai_api_key", "")
    ELSE DictGet(session, "api_key", "")

\* process_pending_request up to its first yield (app.py 292-344): without a
\* pending request, or without the API key, it returns and saves nothing
ProcessPendingStart ==
    /\ pending_run = NotRunning
    /\ \E io \in WriteOutcomes :
       \E session \in {LoadSessionState(session_file)} :
          IF HasPending(session) /\ RequestApiKey(session) # ""
          THEN /\ session_file' =
                      SaveSessionState(session_file, [pending_request |-> None], io)
               /\ saved_keys' = {"pending_request"}
               /\ pending_run' =
                      [pc |-> "running",
                       pending |-> session.pending_request[1],
                       model_choice |-> DictGet(session, "model", DefaultModel)]
          ELSE /\ UNCHANGED <<session_file, pending_run>>
               /\ saved_keys' = {}
    /\ ui_op' = "process_pending_request"
    /\ UNCHANGED config
    /\ UNCHANGED outsideSession

\* process_pending_request from its first yield on (app.py 345-428): the
\* loader or the analyzer fails and nothing is saved, or the results are saved
ProcessPendingFinish ==
    /\ pending_run # NotRunning
    /\ \E outcome \in {"load_error", "analysis_error", "ok"}, io \in WriteOutcomes :
          IF outcome = "ok"
          THEN /\ session_file' =
                      SaveSessionState(session_file,
                          [dot_source |-> Some(SampleDot),
                           repo_name |-> DisplayName(pending_run.pending),
                           stats |-> SampleStats,
                           model |-> pending_run.model_choice], io)
               /\ saved_keys' = {"dot_source", "repo_name", "stats", "model"}
          ELSE /\ UNCHANGED session_file
               /\ saved_keys' = {}
    /\ pending_run' = NotRunning
    /\ ui_op' = "process_pending_request"
    /\ UNCHANGED config
    /\ UNCHANGED outsideSession

NextSession ==
    \/ SaveSettings
    \/ OnModelChange
    \/ ExploreModelChange
    \/ SettingsModelChange
    \/ StartAnalysis
    \/ ProcessPendingStart
    \/ ProcessPendingFinish

SpecSession == InitSession /\ [][NextSession]_vars

\* the value a reader of the session gets for key k: session.get(k), with
\* the default of load_session_state when the file does not have the key
SessionValue(file, k) == DictGet(LoadSessionState(file), k, DefaultSession[k])

\* C5: every save to the session state file is a merge-update: each key the
\* handler's save did not name has after the handler the value it had before,
\* also for the model selector of the Generate page.
C5_SavesMerge ==
    [][\A k \in DOMAIN DefaultSession \ saved_keys' :
           SessionValue(session_file', k) = SessionValue(session_file, k)]_vars

-----------------------------------------------------------------------------
(* A download: the call, then one step for each request it sends.          *)

DownloadUrls ==
    {<<"h", "t", "t", "p", "s", ":", "/", "/", "g", "i", "t", "h", "u", "b",
       ".", "c", "o", "m", "/", "o", "c", "t", "o", "/", "c", "a", "t">>,
     <<"g", "i", "t", "h", "u", "b", ".", "c", "o", "m", "/", "o", "c", "t",
       "o", "/", "c", "a", "t", ".", "g", "i", "t">>,
     <<" ", "h", "t", "t", "p", "s", ":", "/", "/", "g", "i", "t", "h", "u",
       "b", ".", "c", "o", "m", "/", "o", "c", "t", "o", "/", "c", "a", "t",
       "/", " ">>,
     <<"h", "t", "t", "p", ":", "/", "/", "g", "i", "t", "h", "u", "b", ".",
       "c", "o", "m", "/", "o", "c", "t", "o", "/", "v", "u", "e", ".", "j",
       "s">>,
     <<"h", "t", "t", "p", "s", ":", "/", "/", "g", "i", "t", "h", "u", "b",
       ".", "c", "o", "m", "/", "o", "c", "t", "o", "/", "c", "a", "t", ".",
       "v", "2", "/", "t", "r", "e", "e", "/", "m", "a", "i", "n">>,
     <<"h", "t", "t", "p", "s", ":", "/", "/", "g", "i", "t", "l", "a", "b",
       ".", "c", "o", "m", "/", "o", "c", "t", "o", "/", "c", "a", "t">>,
     <<"h", "t", "t", "p", "s", ":", "/", "/", "g", "i", "t", "h", "u", "b",
       ".", "c", "o", "m", "/", "o", "c", "t", "o">>,
     <<"g", "i", "t", "h", "u", "b", ".", "c", "o", "m", "/", "/", "o", "c",
       "t", "o", "/", "g", "i", "t", "h", "u", "b", ".", "c", "o", "m", "/",
       "a", "/", "b">>,
     <<>>}

InitDownload ==
    /\ dl_url = <<>>
    /\ dl_pc = "idle"
    /\ dl_log = <<>>
    /\ dl_result = NoDownloadResult
    /\ OutsideDownloadIdle

\* the call up to the loop (lines 104-123)
StartDownload ==
    /\ dl_pc = "idle"
    /\ \E url \in DownloadUrls :
          /\ dl_url' = url
          /\ IF DownloadTarget(url).error # None
             THEN /\ dl_pc' = "done"
                  /\ dl_result' = DownloadFailed(DownloadTarget(url).error[1])
             ELSE /\ dl_pc' = "requesting"
                  /\ dl_result' = NoDownloadResult
    /\ UNCHANGED dl_log
    /\ UNCHANGED outsideDownload

\* one pass of the loop: the request for the next branch and what follows
\* from the response
SendRequest ==
    /\ dl_pc = "requesting"
    /\ \E resp \in Responses :
       \E target \in {DownloadTarget(dl_url)} :
       \E n \in {Len(dl_log) + 1} :
       \E archive_url \in {ArchiveUrl(target.clean_url, Branches[n])} :
       \E after \in {AfterResponse(target, n, archive_url, resp)} :
          /\ dl_log' = Append(dl_log, [url |-> archive_url, resp |-> resp])
          /\ dl_pc' = after.pc
          /\ dl_result' = after.result
    /\ UNCHANGED dl_url
    /\ UNCHANGED outsideDownload

NextDownload == StartDownload \/ SendRequest

SpecDownload == InitDownload /\ [][NextDownload]_vars

IsTimeout(i) == dl_log[i].resp.kind = "timeout"

\* C6: a network timeout on the attempt for one candidate reference name
\* aborts only that attempt: after a timeout on HEAD or main the loader
\* requests the next candidate, and it reports the timeout only if no later
\* candidate succeeds.
C6_TimeoutFallsThrough ==
    \A i \in 1..Len(dl_log) :
        IsTimeout(i) /\ i < Len(Branches)
            => dl_pc = "requesting" \/ Len(dl_log) > i

\* C6 as the code has it: a timeout on any attempt ends the download; no
\* later candidate is requested and the loader returns "Request timed out".
C6_TimeoutEndsDownload ==
    \A i \in 1..Len(dl_log) :
        IsTimeout(i)
            => /\ i = Len(dl_log)
               /\ dl_pc = "done"
               /\ dl_result = DownloadFailed(TimedOutText)

\* a timeout on the request for main, after HEAD was not found
C6_TimedOutOnMain ==
    /\ dl_pc = "done"
    /\ Len(dl_log) = 2
    /\ dl_log[1].resp.kind = "status"
    /\ IsTimeout(2)

IsStatus(i, codes) ==
    dl_log[i].resp.kind = "status" /\ dl_log[i].resp.code \in codes

\* C7: the loader requests HEAD, main, master in this order; after the first
\* answer with status 200 it sends no further request and returns that
\* archive; when all three answer with another status it fails with
\* "Repository not found"; a timeout and any other network error give
\* different messages; and the call returns in every case, it never raises.
C7_OrderedStopAtFirstSuccess ==
    /\ Len(dl_log) <= Len(Branches)
    /\ \A i \in 1..Len(dl_log) :
          /\ dl_log[i].url = ArchiveUrl(DownloadTarget(dl_url).clean_url, Branches[i])
          /\ IsStatus(i, {200})
                => /\ i = Len(dl_log)
                   /\ dl_pc = "done"
                   /\ dl_log[i].resp.body = "zip"
                         => dl_result = Downloaded([from |-> dl_log[i].url])
          /\ dl_log[i].resp.kind = "timeout"
                => dl_pc = "done" /\ dl_result = DownloadFailed(TimedOutText)
          /\ dl_log[i].resp.kind = "network_error"
                => /\ dl_pc = "done"
                   /\ dl_result.error # None
                   /\ StartsWith(dl_result.error[1], NetworkErrorPrefix)
                   /\ dl_result.error[1] # TimedOutText
    /\ (Len(dl_log) = Len(Branches) /\ \A i \in 1..Len(dl_log) : IsStatus(i, {404, 500}))
          => /\ dl_pc = "done"
             /\ dl_result.error # None
             /\ StartsWith(dl_result.error[1], RepoNotFoundPrefix)
    /\ dl_pc = "requesting" => \A i \in 1..Len(dl_log) : IsStatus(i, {404, 500})
    /\ dl_pc = "done" => /\ dl_result.kind = "returned"
                         /\ (dl_result.zip = None) # (dl_result.error = None)

\* HEAD is not found, main answers 200 with an archive, which is returned
C7_FoundOnMain ==
    /\ dl_pc = "done"
    /\ Len(dl_log) = 2
    /\ IsStatus(1, {404})
    /\ IsStatus(2, {200})
    /\ dl_result.zip = Some([from |-> ArchiveUrl(DownloadTarget(dl_url).clean_url, Branches[2])])

-----------------------------------------------------------------------------
(* _process_zip on archives that reach MAX_CONTEXT_SIZE: files of           *)
(* MAX_FILE_SIZE characters under src/, and a few other entries.            *)

MaxBigFiles == 68
MaxExtras == 2

\* src/b01.py, src/b02.py, ...: MAX_FILE_SIZE characters each
BigFile(i) ==
    [path |-> <<"s", "r", "c", "/", "b">> \o TwoDigits(i) \o <<".", "p", "y">>,
     file_size |-> MAX_FILE_SIZE, readable |-> TRUE,
     content |-> <<Run("x", MAX_FILE_SIZE)>>]

\* the length of the block of a big file
BigBlockLen == RunLen(FileEntry(BigFile(1).path, BigFile(1).content))

\* entries of every archive, none of which gets a block: a directory, a file
\* over MAX_FILE_SIZE, a file that is blank, one that cannot be read, a test
SkippedEntries ==
    {[path |-> <<"s", "r", "c", "/">>,
      file_size |-> 0, readable |-> TRUE,
      content |-> <<>>],
     [path |-> <<"s", "r", "c", "/", "c", ".", "p", "y">>,
      file_size |-> RunLen(<<Run("c", MAX_FILE_SIZE + 1)>>), readable |-> TRUE,
      content |-> <<Run("c", MAX_FILE_SIZE + 1)>>],
     [path |-> <<"s", "r", "c", "/", "b", "l", "a", "n", "k", ".", "p", "y">>,
      file_size |-> RunLen(<<Run(" ", 2), Run(NL, 2), Run("\t", 1)>>), readable |-> TRUE,
      content |-> <<Run(" ", 2), Run(NL, 2), Run("\t", 1)>>],
     [path |-> <<"s", "r", "c", "/", "e", "n", "c", ".", "p", "y">>,
      file_size |-> RunLen(RunText(<<"x", " ", "=", " ", "1">>)), readable |-> FALSE,
      content |-> RunText(<<"x", " ", "=", " ", "1">>)],
     [path |-> <<"t", "e", "s", "t", "s", "/", "t", ".", "p", "y">>,
      file_size |-> RunLen(RunText(<<"x", " ", "=", " ", "1">>)), readable |-> TRUE,
      content |-> RunText(<<"x", " ", "=", " ", "1">>)]}

\* src/n.py is as long as what MaxBigFiles big files leave of the cap: its
\* block has 33 characters besides the content
ExtraEntries ==
    {[path |-> <<"R", "E", "A", "D", "M", "E">>,
      file_size |-> RunLen(RunText(<<"h", "i">>)), readable |-> TRUE,
      content |-> RunText(<<"h", "i">>)],
     [path |-> <<"s", "r", "c", "/", "a", ".", "p", "y">>,
      file_size |-> RunLen(RunText(<<"x", " ", "=", " ", "1">>)), readable |-> TRUE,
      content |-> RunText(<<"x", " ", "=", " ", "1">>)],
     [path |-> <<"s", "r", "c", "/", "m", ".", "p", "y">>,
      file_size |-> RunLen(<<Run("m", 16000)>>), readable |-> TRUE,
      content |-> <<Run("m", 16000)>>],
     [path |-> <<"s", "r", "c", "/", "n", ".", "p", "y">>,
      file_size |-> RunLen(<<Run("n", (MAX_CONTEXT_SIZE % BigBlockLen) - 33)>>), readable |-> TRUE,
      content |-> <<Run("n", (MAX_CONTEXT_SIZE % BigBlockLen) - 33)>>],
     [path |-> <<"s", "r", "c", "/", "d", "e", "e", "p", "/", "w", ".", "p", "y">>,
      file_size |-> RunLen(<<Run("a", 1), Run(" ", 2), Run(NL, 5), Run(" ", 1), Run("b", 3), Run(NL, 1)>>), readable |-> TRUE,
      content |-> <<Run("a", 1), Run(" ", 2), Run(NL, 5), Run(" ", 1), Run("b", 3), Run(NL, 1)>>],
     [path |-> <<"d", "o", "c", "s", "/", "g", "u", "i", "d", "e", ".", "m", "d">>,
      file_size |-> RunLen(RunText(<<"x", " ", "=", " ", "1">>)), readable |-> TRUE,
      content |-> RunText(<<"x", " ", "=", " ", "1">>)],
     [path |-> <<"a", "s", "s", "e", "t", "s", "/", "h", "u", "g", "e", ".", "b", "i", "n">>,
      file_size |-> LARGE_REPO_THRESHOLD + 1, readable |-> TRUE,
      content |-> <<>>]}

\* src/main.py (500 bytes), tests/test_main.py, node_modules/x.js, README
ExampleArchive ==
    {[path |-> <<"s", "r", "c", "/", "m", "a", "i", "n", ".", "p", "y">>,
      file_size |-> 500, readable |-> TRUE,
      content |-> <<Run("x", 500)>>],
     [path |-> <<"t", "e", "s", "t", "s", "/", "t", "e", "s", "t", "_", "m", "a", "i",
                 "n", ".", "p", "y">>,
      file_size |-> RunLen(RunText(<<"x", " ", "=", " ", "1">>)), readable |-> TRUE,
      content |-> RunText(<<"x", " ", "=", " ", "1">>)],
     [path |-> <<"n", "o", "d", "e", "_", "m", "o", "d", "u", "l", "e", "s", "/", "x",
                 ".", "j", "s">>,
      file_size |-> RunLen(RunText(<<"x", " ", "=", " ", "1">>)), readable |-> TRUE,
      content |-> RunText(<<"x", " ", "=", " ", "1">>)],
     [path |-> <<"R", "E", "A", "D", "M", "E">>,
      file_size |-> RunLen(RunText(<<"h", "i">>)), readable |-> TRUE,
      content |-> RunText(<<"h", "i">>)]}

Archives ==
    {{BigFile(i) : i \in 1..b} \cup SkippedEntries \cup extras :
        b \in {0, 1, MaxBigFiles},
        extras \in {e \in SUBSET ExtraEntries : Cardinality(e) <= MaxExtras}}
    \cup {ExampleArchive}

InitZip ==
    /\ zip_archive \in Archives
    /\ zip_pc = "idle"
    /\ zip_context = <<>>
    /\ zip_stats = NoDict
    /\ OutsideZipIdle

\* the call of _process_zip
CallProcessZip ==
    /\ zip_pc = "idle"
    /\ \E r \in {ProcessZip(zip_archive)} :
          /\ zip_context' = r.context
          /\ zip_stats' = r.stats
    /\ zip_pc' = "done"
    /\ UNCHANGED zip_archive
    /\ UNCHANGED outsideZip

NextZip == CallProcessZip

SpecZip == InitZip /\ [][NextZip]_vars

\* a file that can get a block: not a directory, allowed, not over
\* MAX_FILE_SIZE, readable, and not empty once cleaned
Admissible(file_info, aggressive) ==
    /\ ~IsDirectory(file_info.path)
    /\ IsAllowedFile(file_info.path, aggressive)
    /\ file_info.file_size <= MAX_FILE_SIZE
    /\ file_info.readable
    /\ CleanCode(file_info.content) # <<>>

\* the blocks of the admissible files, in priority order
AdmissibleBlocks(zip) ==
    Bind(SortedFiles({e.path : e \in zip}), LAMBDA all_files :
    Bind(TotalSize(zip, all_files) > LARGE_REPO_THRESHOLD, LAMBDA aggressive :
    Bind(Ascending({i \in 1..Len(all_files) :
                       Admissible(Entry(zip, all_files[i]), aggressive)}),
         LAMBDA at :
         [k \in 1..Len(at) |->
             FileEntry(all_files[at[k]], CleanCode(Entry(zip, all_files[at[k]]).content))])))

BlockLengths(blocks) == [k \in 1..Len(blocks) |-> RunLen(blocks[k])]

\* the length of the longest prefix whose blocks are together within the cap
LongestPrefix(lengths) ==
    MaxOf({k \in 0..Len(lengths) : SumRange(lengths, 1, k) <= MAX_CONTEXT_SIZE})

\* C8: the context _process_zip returns is the concatenation, in priority
\* order, of the whole blocks of the longest prefix of the admissible
\* non-empty files whose blocks are together at most MAX_CONTEXT_SIZE long:
\* it is never longer than the cap, no block is cut, and the first file that
\* does not fit and every file after it are left out.
C8_ContextIsLongestPrefix ==
    zip_pc = "done" =>
        \E blocks \in {AdmissibleBlocks(zip_archive)} :
        \E lengths \in {BlockLengths(blocks)} :
        \E k \in {LongestPrefix(lengths)} :
            /\ zip_context = JoinRuns(SubSeq(blocks, 1, k))
            /\ RunLen(zip_context) = SumRange(lengths, 1, k)
            /\ RunLen(zip_context) <= MAX_CONTEXT_SIZE
            /\ zip_stats.total_characters = RunLen(zip_context)
            /\ zip_stats.files_processed = k

\* a file after the first one that does not fit is left out although its
\* block would still fit
C8_LaterFittingFileLeftOut ==
    /\ zip_pc = "done"
    /\ \E blocks \in {AdmissibleBlocks(zip_archive)} :
       \E lengths \in {BlockLengths(blocks)} :
       \E k \in {LongestPrefix(lengths)} :
          /\ k > 0
          /\ zip_stats.files_processed = k
          /\ \E j \in (k + 2)..Len(blocks) :
                zip_stats.total_characters + lengths[j] <= MAX_CONTEXT_SIZE

\* the number of file blocks in a context: the places where '<file ' begins
FileBlocks(context) ==
    LET opener == <<"<", "f", "i", "l", "e", " ">>
    IN  Cardinality({i \in 1..(Len(context) - Len(opener) + 1) :
                        \A j \in 1..Len(opener) :
                            context[i + j - 1] = Run(opener[j], 1)})

\* the entries of the archive that are not directories
NonDirectoryEntries(zip) == {e \in zip : ~IsDirectory(e.path)}

\* the number of entries, directories left aside, that the loop of
\* _process_zip visits before it is left: all of them when the blocks of the
\* admissible files are together within MAX_CONTEXT_SIZE, and otherwise the
\* ones that come before the first file whose block does not fit
VisitedBeforeTheCap(zip) ==
    LET all_files == SortedFiles({e.path : e \in zip})
        aggressive == TotalSize(zip, all_files) > LARGE_REPO_THRESHOLD
        at == Ascending({i \in 1..Len(all_files) :
                            Admissible(Entry(zip, all_files[i]), aggressive)})
        lengths == [k \in 1..Len(at) |->
                       RunLen(FileEntry(all_files[at[k]],
                                        CleanCode(Entry(zip, all_files[at[k]]).content)))]
        k == LongestPrefix(lengths)
        last == IF k = Len(at) THEN Len(all_files) ELSE at[k + 1] - 1
    IN  Cardinality({i \in 1..last : ~IsDirectory(all_files[i])})

\* C18 as the claim has it: files_processed is the number of file blocks in
\* the context, and files_processed + files_skipped is the number of entries
\* of the archive that are not directories; for the archive src/main.py,
\* tests/test_main.py, node_modules/x.js, README: processed 2, skipped 2.
C18_EveryEntryCounted ==
    zip_pc = "done" =>
        /\ zip_stats.files_processed = FileBlocks(zip_context)
        /\ zip_stats.files_processed + zip_stats.files_skipped
               = Cardinality(NonDirectoryEntries(zip_archive))
        /\ zip_archive = ExampleArchive =>
               zip_stats.files_processed = 2 /\ zip_stats.files_skipped = 2

\* C18, for what the code does: files_processed is the number of file blocks
\* in the context; files_processed + files_skipped is the number of entries
\* that are not directories and come, in priority order, before the first
\* admitted file whose block does not fit within MAX_CONTEXT_SIZE, which is
\* every such entry when all blocks fit; the example archive gives
\* processed 2, skipped 2.
C18_EveryVisitedEntryCounted ==
    zip_pc = "done" =>
        /\ zip_stats.files_processed = FileBlocks(zip_context)
        /\ zip_stats.files_processed + zip_stats.files_skipped
               = VisitedBeforeTheCap(zip_archive)
        /\ VisitedBeforeTheCap(zip_archive) <= Cardinality(NonDirectoryEntries(zip_archive))
        /\ zip_archive = ExampleArchive =>
               zip_stats.files_processed = 2 /\ zip_stats.files_skipped = 2

\* the loop was left at the cap: the file that did not fit and the entries
\* after it, a rejected one among them, are counted neither way
C18_EntriesAfterTheCapUncounted ==
    /\ zip_pc = "done"
    /\ zip_stats.files_processed = MaxBigFiles
    /\ zip_stats.files_processed + zip_stats.files_skipped
           < Cardinality(NonDirectoryEntries(zip_archive)) - 1
    /\ \E e \in zip_archive :
          /\ ~IsDirectory(e.path)
          /\ ~IsAllowedFile(e.path, FALSE)

-----------------------------------------------------------------------------
(* Concurrent saves to the history store.  Each request that generates a   *)
(* diagram calls _save_diagram once (diagram.py 117, mcp/tools.py 38, both *)
(* with the prefix "raw"); the requests run at the same time, so the steps *)
(* of their calls interleave: the name is made from the label and the      *)
(* clock, the diagram file is opened and written, and then the metadata    *)
(* file.  Two calls stand for any two saves.                               *)

Writers == {"w1", "w2"}

MaxClock == 1

OctoUnderscoreCat == <<"o", "c", "t", "o", "_", "c", "a", "t">>
OctoDashCat == <<"o", "c", "t", "o", "-", "c", "a", "t">>
LongLabelA == Repeat("r", MaxSafeRepoLen) \o <<"a">>
LongLabelB == Repeat("r", MaxSafeRepoLen) \o <<"b">>

HistoryLabels ==
    {OctoCat, OctoUnderscoreCat, OctoDashCat, <<>>, <<"?">>, LongLabelA, LongLabelB}

HistoryDiagrams ==
    {KwDigraph \o <<" ", "G", " ", "{", "}">>,
     KwDigraph \o <<" ", "H", " ", "{", " ", "A", " ", "-", ">", " ", "B", " ", "}">>}

IdleWriter ==
    [pc |-> "idle", repo_name |-> <<>>, dot_content |-> <<>>, metadata |-> NoDict,
     timestamp |-> <<>>, safe_repo |-> <<>>, filepath |-> <<>>]

InitHistory ==
    /\ writers = [w \in Writers |-> IdleWriter]
    /\ diagrams_dir = <<>>
    /\ clock = 0
    /\ OutsideHistoryIdle

\* lines 256-271: the call, with its arguments, reads the clock and makes
\* the name of the file
BeginSave(w) ==
    /\ writers[w].pc = "idle"
    /\ \E repo_name \in HistoryLabels, dot_content \in HistoryDiagrams,
          metadata \in {NoDict, SampleMetadata} :
       \E timestamp \in {Timestamp(clock)} :
          writers' = [writers EXCEPT ![w] =
              [pc |-> "named", repo_name |-> repo_name, dot_content |-> dot_content,
               metadata |-> metadata, timestamp |-> timestamp,
               safe_repo |-> SafeRepo(repo_name),
               filepath |-> DiagramFilename(RawPrefix, repo_name, timestamp)]]
    /\ UNCHANGED <<diagrams_dir, clock>>
    /\ UNCHANGED outsideHistory

\* line 274: open(filepath, "w"); when it raises, lines 293-295 return None
OpenDot(w) ==
    /\ writers[w].pc = "named"
    /\ \/ /\ diagrams_dir' = OpenForWriting(diagrams_dir, writers[w].filepath)
          /\ writers' = [writers EXCEPT ![w].pc = "dot_open"]
       \/ /\ writers' = [writers EXCEPT ![w].pc = "failed"]
          /\ UNCHANGED diagrams_dir
    /\ UNCHANGED clock
    /\ UNCHANGED outsideHistory

\* lines 275-279: the content is written from the start of the file, and the
\* call returns unless there is metadata
WriteDot(w) ==
    /\ writers[w].pc = "dot_open"
    /\ diagrams_dir' =
           WriteFile(diagrams_dir, writers[w].filepath,
                     Overlay(diagrams_dir[writers[w].filepath], writers[w].dot_content))
    /\ writers' = [writers EXCEPT ![w].pc =
                       IF writers[w].metadata = NoDict THEN "done" ELSE "dot_written"]
    /\ UNCHANGED clock
    /\ UNCHANGED outsideHistory

\* lines 281-288: open(meta_filepath, "w"), or lines 293-295
OpenMeta(w) ==
    /\ writers[w].pc = "dot_written"
    /\ \/ /\ diagrams_dir' =
                 OpenForWriting(diagrams_dir, MetaFilename(writers[w].filepath))
          /\ writers' = [writers EXCEPT ![w].pc = "meta_open"]
       \/ /\ writers' = [writers EXCEPT ![w].pc = "failed"]
          /\ UNCHANGED diagrams_dir
    /\ UNCHANGED clock
    /\ UNCHANGED outsideHistory

\* lines 289-292: json.dump and the return.  Of two dumps to one file the
\* model keeps the document of the later one.
DumpMeta(w) ==
    /\ writers[w].pc = "meta_open"
    /\ diagrams_dir' =
           WriteFile(diagrams_dir, MetaFilename(writers[w].filepath),
                     MetadataDocument(writers[w].metadata, writers[w].dot_content,
                                      writers[w].repo_name, writers[w].timestamp))
    /\ writers' = [writers EXCEPT ![w].pc = "done"]
    /\ UNCHANGED clock
    /\ UNCHANGED outsideHistory

\* a second passes
Tick ==
    /\ clock < MaxClock
    /\ clock' = clock + 1
    /\ UNCHANGED <<diagrams_dir, writers>>
    /\ UNCHANGED outsideHistory

NextHistory ==
    \/ \E w \in Writers : BeginSave(w)
    \/ \E w \in Writers : OpenDot(w)
    \/ \E w \in Writers : WriteDot(w)
    \/ \E w \in Writers : OpenMeta(w)
    \/ \E w \in Writers : DumpMeta(w)
    \/ Tick

SpecHistory == InitHistory /\ [][NextHistory]_vars

\* the save has made the name of its file
Named(w) == writers[w].pc # "idle"

\* the files of the save are in the directory as the save wrote them
Persists(w) ==
    /\ writers[w].filepath \in DOMAIN diagrams_dir
    /\ diagrams_dir[writers[w].filepath] = writers[w].dot_content
    /\ writers[w].metadata # NoDict =>
          /\ MetaFilename(writers[w].filepath) \in DOMAIN diagrams_dir
          /\ diagrams_dir[MetaFilename(writers[w].filepath)] =
                 MetadataDocument(writers[w].metadata, writers[w].dot_content,
                                  writers[w].repo_name, writers[w].timestamp)

\* C9, as stated: two saves that differ in the repository label or in the
\* second of the timestamp are written to different files, and both files
\* are in the directory, as written, once both saves have returned, whatever
\* the interleaving of the two writers.
C9_OtherLabelOrSecondOtherFile ==
    \A a, b \in Writers :
        (/\ a # b
         /\ Named(a)
         /\ Named(b)
         /\ \/ writers[a].repo_name # writers[b].repo_name
            \/ writers[a].timestamp # writers[b].timestamp)
        => /\ writers[a].filepath # writers[b].filepath
           /\ (writers[a].pc = "done" /\ writers[b].pc = "done")
                 => (Persists(a) /\ Persists(b))

\* C9, amended: two saves are written to the same file exactly when their
\* labels are the same after sanitizing ('/' and ' ' replaced by '_', other
\* characters than letters, digits, '_' and '-' removed, the first 50
\* characters kept) and the seconds of their timestamps are the same; a
\* save that has returned and whose file no other save shares has its files
\* in the directory as it wrote them, whatever the interleaving.
C9_SameFileIffSameSafeRepoAndSecond ==
    \A a, b \in Writers :
        (a # b /\ Named(a) /\ Named(b))
        => /\ (writers[a].filepath = writers[b].filepath)
                 <=> (/\ writers[a].safe_repo = writers[b].safe_repo
                      /\ writers[a].timestamp = writers[b].timestamp)
           /\ (writers[a].filepath # writers[b].filepath /\ writers[a].pc = "done")
                 => Persists(a)

\* the saves of 'octo/cat' and of 'octo_cat' in one second have both
\* returned: they went to one file, which holds the diagram of the second
\* and no longer that of the first
C9_OctoCatOverwritten ==
    \E a, b \in Writers :
        /\ writers[a].pc = "done"
        /\ writers[b].pc = "done"
        /\ writers[a].repo_name = OctoCat
        /\ writers[b].repo_name = OctoUnderscoreCat
        /\ writers[a].timestamp = writers[b].timestamp
        /\ writers[a].filepath = writers[b].filepath
        /\ writers[a].dot_content # writers[b].dot_content
        /\ diagrams_dir[writers[b].filepath] = writers[b].dot_content
        /\ ~Persists(a)

-----------------------------------------------------------------------------
(* _count_nodes_edges on a diagram source and on the same lines in another *)
(* order.                                                                  *)

MaxCountLines == 2

\* lines of a diagram source: edge statements, with and without ';', with
\* a quoted name, with a keyword for a name; and the two halves of an edge
\* statement that is written on two lines
CountLines ==
    {<<"A", " ", "-", ">", " ", "B">>,
     <<"B", "-", ">", "A", ";">>,
     <<" ", QUOTE, "A", " ", "B", QUOTE, " ", "-", ">", " ", "C", ";">>,
     <<"C", " ", "-", ">", " ", "n", "o", "d", "e">>,
     <<"A">>,
     <<"-", ">", " ", "B">>,
     <<"C", " ", "-", ">">>}

CountInputs ==
    {Join(ls, <<NL>>) : ls \in SeqsUpTo(CountLines, MaxCountLines) \ {<<>>}}

InitCount ==
    /\ dot_in \in CountInputs
    /\ dot_mid = <<>>
    /\ dot_out = <<>>
    /\ dot_op = "none"
    /\ RenderIdle
    /\ OutsideDiagramIdle

\* the lines of the source are put in another order (or left as they are)
ReorderLines ==
    /\ dot_op = "none"
    /\ \E lines \in {Split(dot_in, <<NL>>)} :
       \E order \in Permutations(1..Len(lines)) :
          dot_mid' = Join([k \in 1..Len(lines) |-> lines[order[k]]], <<NL>>)
    /\ dot_op' = "reordered"
    /\ UNCHANGED <<dot_in, dot_out>>
    /\ UNCHANGED renderVars
    /\ UNCHANGED outsideDiagram

\* _count_nodes_edges is called with the source and with the reordered one
CallCountNodesEdges ==
    /\ dot_op = "reordered"
    /\ dot_out' = <<CountNodesEdges(dot_in), CountNodesEdges(dot_mid)>>
    /\ dot_op' = "count"
    /\ UNCHANGED <<dot_in, dot_mid>>
    /\ UNCHANGED renderVars
    /\ UNCHANGED outsideDiagram

NextCount == ReorderLines \/ CallCountNodesEdges

SpecCount == InitCount /\ [][NextCount]_vars

IsEdgeStatementLine(line) ==
    LET stripped == Strip(line)
        body == IF EndsWith(stripped, <<";">>)
                THEN RStrip(SubSeq(stripped, 1, Len(stripped) - 1))
                ELSE stripped
    IN  body # <<>> /\ EdgeAt(body, 1).end = Len(body) + 1

-----------------------------------------------------------------------------
(* Calls of get_history on directories that hold diagrams saved by         *)
(* _save_diagram, with and without their metadata files, and other files.  *)

MaxHistoryFiles == 2

DefaultLimit == 50
McpLimit == 10

OctoDraw == <<"o", "c", "t", "o", "/", "d", "r", "a", "w">>

\* the saves the directory may hold: the label and the time of each
SavedDiagrams == {<<>>, OctoCat, OctoDraw} \X {1, SecondsPerDay}

SavedFilename(d) == DiagramFilename(RawPrefix, d[1], Timestamp(d[2]))

\* the metadata file of a save: none, the document _save_diagram writes, or
\* a document with the model name only
MetadataKinds == {"none", "full", "partial"}

PartialMetadata == [model_name |-> <<"G", "P", "T">>]

NotesTxt == <<"n", "o", "t", "e", "s", ".", "t", "x", "t">>
RawNotesDot == <<"r", "a", "w", "_", "n", "o", "t", "e", "s", ".", "d", "o", "t">>

\* files that are always there and are not diagrams of the history
OtherFiles == (NotesTxt :> <<"x">>) @@ (RawNotesDot :> SampleDot)

RECURSIVE DirectoryOf(_, _)
\* the directory with the saves `saved`, each with the metadata kinds[d]
DirectoryOf(saved, kinds) ==
    IF saved = {} THEN OtherFiles
    ELSE LET d == CHOOSE x \in saved : TRUE
             filename == SavedFilename(d)
             rest == DirectoryOf(saved \ {d}, kinds)
             document == IF kinds[d] = "full"
                         THEN MetadataDocument(SampleMetadata, SampleDot, d[1],
                                               Timestamp(d[2]))
                         ELSE PartialMetadata
         IN  IF kinds[d] = "none" THEN WriteFile(rest, filename, SampleDot)
             ELSE WriteFile(WriteFile(rest, filename, SampleDot),
                            MetaFilename(filename), document)

ListingDirectories ==
    UNION {{DirectoryOf(saved, kinds) : kinds \in [saved -> MetadataKinds]} :
           saved \in {s \in SUBSET SavedDiagrams : Cardinality(s) <= MaxHistoryFiles}}

InitListing ==
    /\ diagrams_dir \in ListingDirectories
    /\ clock = 0
    /\ render_call = NoCall
    /\ html = NoHtml
    /\ history_list = <<>>
    /\ writers = <<>>
    /\ TextIdle
    /\ SessionIdle
    /\ DownloadIdle
    /\ ZipIdle

\* the names of the directory that end with `suffix`
NamesWithSuffix(dir, suffix) == {f \in DOMAIN dir : EndsWith(f, suffix)}

\* the orders in which the elements of a set can come
OrdersOf(S) ==
    {[k \in 1..Cardinality(S) |-> CHOOSE f \in S : order[f] = k] :
        order \in {o \in [S -> 1..Cardinality(S)] :
                      \A f, g \in S : f # g => o[f] # o[g]}}

\* get_history(), from the UI, and get_history(limit=10), from the MCP tool
\* list_recent_analyses (mcp/tools.py 91); iterdir gives the saved diagrams
\* in any order, and the other file before or after them
CallGetHistory ==
    /\ render_call = NoCall
    /\ \E saved_order \in OrdersOf(NamesWithSuffix(diagrams_dir, DotSuffix)
                                      \ DOMAIN OtherFiles) :
       \E order \in {<<RawNotesDot>> \o saved_order, saved_order \o <<RawNotesDot>>},
          unreadable \in {u \in SUBSET NamesWithSuffix(diagrams_dir, JsonSuffix) :
                             Cardinality(u) <= 1},
          limit \in {DefaultLimit, McpLimit} :
          /\ render_call' = [op |-> "get_history", order |-> order,
                             unreadable |-> unreadable, limit |-> limit]
          /\ history_list' = GetHistory(diagrams_dir, order, unreadable, limit)
    /\ UNCHANGED outsideListing

NextListing == CallGetHistory

SpecListing == InitListing /\ [][NextListing]_vars

\* C15: the timestamps of the list get_history returned, each the date part
\* followed by the time part, are in non-increasing order.
C15_NewestFirst ==
    render_call.op = "get_history" =>
        \A i \in 1..(Len(history_list) - 1) :
            ~TextLess(history_list[i].timestamp, history_list[i + 1].timestamp)

\* two diagrams of different days are listed, the one of the later day
\* first, though iterdir gave the one of the earlier day first
C15_LaterDayListedFirst ==
    /\ render_call.op = "get_history"
    /\ Len(history_list) = 2
    /\ TextLess(history_list[2].timestamp, history_list[1].timestamp)
    /\ TextLess(SubSeq(history_list[1].timestamp, 10, 15),
                SubSeq(history_list[2].timestamp, 10, 15))
    /\ \E i, j \in 1..Len(render_call.order) :
          /\ i < j
          /\ render_call.order[i] = history_list[2].filename
          /\ render_call.order[j] = history_list[1].filename

\* the name of a diagram of the history: raw_, at most a label and '_', the
\* eight digits of the date, '_', the six digits of the time, and .dot
IsSavedDiagramName(f) ==
    /\ StartsWith(f, RawUnderscore)
    /\ EndsWith(f, DotSuffix)
    /\ LET stem == SubSeq(f, 1, Len(f) - Len(DotSuffix))
           n == Len(stem)
       IN  /\ n >= Len(RawUnderscore) + 15
           /\ stem[n - 15] = "_"
           /\ IsDigitStr(SubSeq(stem, n - 14, n - 7))
           /\ stem[n - 6] = "_"
           /\ IsDigitStr(SubSeq(stem, n - 5, n))

\* the object in the metadata file beside the diagram f, the empty one when
\* the file is missing or cannot be read
MetadataBeside(f) ==
    LET meta_filename == SubSeq(f, 1, Len(f) - Len(DotSuffix)) \o JsonSuffix
    IN  IF meta_filename \in DOMAIN diagrams_dir /\ meta_filename \notin render_call.unreadable
        THEN diagrams_dir[meta_filename]
        ELSE NoDict

\* C16: every diagram of the history is in the list get_history returned,
\* also when its metadata file is missing or cannot be read; a field that the
\* metadata does not give is empty (model_name) or 0 (files_processed,
\* total_characters, node_count, edge_count), and the repo name is then
\* taken from the file name.
C16_ListedWithDefaults ==
    render_call.op = "get_history" =>
        \A f \in DOMAIN diagrams_dir :
            IsSavedDiagramName(f) =>
                \E i \in 1..Len(history_list) :
                    LET entry == history_list[i]
                        metadata == MetadataBeside(f)
                    IN  /\ entry.filename = f
                        /\ entry.model_name = DictGet(metadata, "model_name", <<>>)
                        /\ \A k \in {"files_processed", "total_characters",
                                     "node_count", "edge_count"} :
                               entry[k] = DictGet(metadata, k, 0)
                        /\ IF "repo_name" \in DOMAIN metadata
                           THEN entry.repo_name = metadata.repo_name
                           ELSE \/ entry.repo_name = LocalName
                                \/ Contains(f, entry.repo_name)

-----------------------------------------------------------------------------
(* load_from_github and load_from_file on small archives.                  *)

MaxLoaderEntries == 2

\* the entries that get no block, a README, src/a.py, docs/guide.md, and
\* assets/huge.bin, which makes the archive a large one
LoaderEntries == SkippedEntries \cup {e \in ExtraEntries : RunLen(e.content) <= 5}

LoaderArchives == {a \in SUBSET LoaderEntries : Cardinality(a) <= MaxLoaderEntries}

LoaderUrls == {GithubUrl, <<>>} \cup {u \in DownloadUrls : ~Contains(u, GithubHost)}

LoaderResponses ==
    {r \in Responses : \/ r.kind = "timeout"
                       \/ r.kind = "status" /\ r.code # 500 /\ r.body # "broken"}

InitLoader ==
    /\ zip_archive \in LoaderArchives
    /\ zip_pc = "idle"
    /\ zip_context = <<>>
    /\ zip_stats = NoDict
    /\ DownloadIdle
    /\ TextIdle /\ RenderIdle /\ SessionIdle /\ HistoryIdle

\* load_from_github(url): the requests meet the responses resps, and a
\* download that succeeds gives the archive
CallLoadFromGithub ==
    /\ dl_pc = "idle"
    /\ \E url \in LoaderUrls :
       \E resps \in [1..Len(Branches) -> LoaderResponses] :
       \E download \in {DownloadGithubRepo(url, resps)} :
          /\ dl_url' = url
          /\ dl_log' = resps
          /\ dl_result' = LoadFromGithub(url, download, zip_archive)
    /\ dl_pc' = "load_from_github"
    /\ UNCHANGED zip_archive
    /\ UNCHANGED outsideLoader

\* load_from_file(file_path)
CallLoadFromFile ==
    /\ dl_pc = "idle"
    /\ \E file_path \in {UploadPath, <<>>} :
       \E opened \in OpenOutcomes :
          /\ dl_url' = file_path
          /\ dl_log' = <<opened>>
          /\ dl_result' = LoadFromFile(file_path, opened, zip_archive)
    /\ dl_pc' = "load_from_file"
    /\ UNCHANGED zip_archive
    /\ UNCHANGED outsideLoader

NextLoader == CallLoadFromGithub \/ CallLoadFromFile

SpecLoader == InitLoader /\ [][NextLoader]_vars

\* the call got an archive: the download gave one, or the file opened as one
ArchiveLoaded ==
    \/ dl_pc = "load_from_github" /\ DownloadGithubRepo(dl_url, dl_log).zip # None
    \/ dl_pc = "load_from_file" /\ dl_log = <<"zip">>

\* no entry of the archive can get a block
NothingAdmissible ==
    LET file_list == SortedFiles({e.path : e \in zip_archive})
        aggressive == TotalSize(zip_archive, file_list) > LARGE_REPO_THRESHOLD
    IN  \A e \in zip_archive : ~Admissible(e, aggressive)

\* C17: every call of load_from_github or load_from_file returns, and the
\* ProcessingResult it returns has exactly one of error and context set; a
\* context that is set is not empty and comes with stats; for an archive in
\* which no file is admitted the error is the 'No valid code files' one.
C17_ErrorOrContext ==
    dl_pc \in {"load_from_github", "load_from_file"} =>
        /\ dl_result.kind = "returned"
        /\ (dl_result.error = None) # (dl_result.context = None)
        /\ dl_result.error # None => dl_result.error[1] # <<>>
        /\ dl_result.context # None =>
              /\ dl_result.context[1] # <<>>
              /\ dl_result.stats # None
              /\ dl_result.stats[1].files_processed >= 1
        /\ (ArchiveLoaded /\ NothingAdmissible) =>
              dl_result.error = Some(IF dl_pc = "load_from_github"
                                     THEN NoValidFilesInRepository
                                     ELSE NoValidFilesInZip)

\* an archive with entries, none of them admitted, was downloaded, and the
\* call returned the 'No valid code files' error
C17_NothingAdmittedFromDownload ==
    /\ dl_pc = "load_from_github"
    /\ ArchiveLoaded
    /\ zip_archive # {}
    /\ NothingAdmissible
    /\ dl_result.error = Some(NoValidFilesInRepository)
    /\ dl_result.context = None

-----------------------------------------------------------------------------
(* _process_zip on archives over and under LARGE_REPO_THRESHOLD that have  *)
(* files under example, demo and tutorial paths.                           *)

MaxMarkedFiles == 3

\* a file with the content 'x = 1'
SmallFile(path) ==
    [path |-> path, file_size |-> 5, readable |-> TRUE,
     content |-> RunText(<<"x", " ", "=", " ", "1">>)]

\* examples/app.py, Examples/Makefile, src/Demo.py, src/tutorial/README,
\* lib/TUTORIALS.md, src/core.py and README
MarkedEntries ==
  {
    SmallFile(
        <<"e", "x", "a", "m", "p", "l", "e", "s", "/", "a", "p", "p",
          ".", "p", "y">>),
    SmallFile(
        <<"E", "x", "a", "m", "p", "l", "e", "s", "/", "M", "a", "k",
          "e", "f", "i", "l", "e">>),
    SmallFile(
        <<"s", "r", "c", "/", "D", "e", "m", "o", ".", "p", "y">>),
    SmallFile(
        <<"s", "r", "c", "/", "t", "u", "t", "o", "r", "i", "a", "l",
          "/", "R", "E", "A", "D", "M", "E">>),
    SmallFile(
        <<"l", "i", "b", "/", "T", "U", "T", "O", "R", "I", "A", "L",
          "S", ".", "m", "d">>),
    SmallFile(
        <<"s", "r", "c", "/", "c", "o", "r", "e", ".", "p", "y">>),
    SmallFile(
        <<"R", "E", "A", "D", "M", "E">>)
  }

\* assets/huge.bin, larger than LARGE_REPO_THRESHOLD
HugeEntries == {e \in ExtraEntries : e.file_size > LARGE_REPO_THRESHOLD}

LargeRepoArchives ==
    {files \cup huge :
        files \in {m \in SUBSET MarkedEntries : Cardinality(m) <= MaxMarkedFiles},
        huge \in {{}, HugeEntries}}

InitLargeRepo ==
    /\ zip_archive \in LargeRepoArchives
    /\ zip_pc = "idle"
    /\ zip_context = <<>>
    /\ zip_stats = NoDict
    /\ OutsideZipIdle

SpecLargeRepo == InitLargeRepo /\ [][NextZip]_vars

\* the aggregate uncompressed size of the archive
AggregateSize(zip) ==
    LET sizes == Ascending({e.file_size : e \in zip})
        times == [k \in 1..Len(sizes) |->
                     sizes[k] * Cardinality({e \in zip : e.file_size = sizes[k]
                                                          /\ ~IsDirectory(e.path)})]
    IN  SumRange(times, 1, Len(times))

\* the path has an example, demo or tutorial marker, in any case of letters
HasMarker(path) ==
    \E marker \in {<<"e", "x", "a", "m", "p", "l", "e">>, <<"d", "e", "m", "o">>,
                   <<"t", "u", "t", "o", "r", "i", "a", "l">>} :
        Contains(ToLower(path), marker)

\* the context has the block of the file with this path
HasBlockOf(context, path) ==
    LET header == RunText(<<"<", "f", "i", "l", "e", " ", "n", "a", "m", "e", "=", QUOTE>>
                              \o path \o <<QUOTE, ">", NL>>)
    IN  \E i \in 1..(Len(context) - Len(header) + 1) :
            SubSeq(context, i, i + Len(header) - 1) = header

\* C19: when the aggregate uncompressed size of the archive is over
\* LARGE_REPO_THRESHOLD, the context has no block of a file whose path
\* contains an example, demo or tutorial marker, whatever its extension or
\* file name.
C19_NoMarkedFileInLargeRepo ==
    (zip_pc = "done" /\ AggregateSize(zip_archive) > LARGE_REPO_THRESHOLD) =>
        \A e \in zip_archive :
            HasMarker(e.path) => ~HasBlockOf(zip_context, e.path)

\* a large archive with Examples/Makefile, src/tutorial/README and
\* src/core.py: only src/core.py is in the context
C19_OnlyCoreFileAdmitted ==
    /\ zip_pc = "done"
    /\ AggregateSize(zip_archive) > LARGE_REPO_THRESHOLD
    /\ \E a, b, c \in zip_archive :
          /\ a.path = <<"E", "x", "a", "m", "p", "l", "e", "s", "/", "M", "a", "k", "e",
                        "f", "i", "l", "e">>
          /\ b.path = <<"s", "r", "c", "/", "t", "u", "t", "o", "r", "i", "a", "l", "/",
                        "R", "E", "A", "D", "M", "E">>
          /\ c.path = <<"s", "r", "c", "/", "c", "o", "r", "e", ".", "p", "y">>
          /\ ~HasBlockOf(zip_context, a.path)
          /\ ~HasBlockOf(zip_context, b.path)
          /\ HasBlockOf(zip_context, c.path)
    /\ zip_stats.files_processed = 1

-----------------------------------------------------------------------------
(* The MCP tools (src/src/mcp/tools.py 14-85) and start_analysis, with the *)
(* inputs a caller can give.  A call of a tool is a record `c`: the tool,  *)
(* the API key, the URL and the path (None when not given), the question,  *)
(* what the loader answers (`load_error` is None or the error text,        *)
(* `repo_name` the label) and what the analyzer answers (`analysis_error`  *)
(* is None or the error text, `content` its text).                         *)

McpTools == {"analyze_codebase", "get_architecture_summary", "chat_with_codebase"}

NoQuestionText ==
    <<"E", "r", "r", "o", "r", ":", " ", "P", "l", "e", "a", "s", "e",
      " ", "p", "r", "o", "v", "i", "d", "e", " ", "a", " ", "q", "u",
      "e", "s", "t", "i", "o", "n", ".">>

\* what a tool has done when it returns: the loader it called, the call of
\* the model, the write to the history
LoadEffect(c) == IF Truthy(c.file_path) THEN "load_from_file" ELSE "load_from_github"

\* as RunTool, with the API key looked at after the repository is loaded
RunToolKeyCheckedLate(dir, now, c) ==
    IF ~Truthy(c.github_url) /\ ~Truthy(c.file_path)
    THEN [text |-> NoSourceText, effects |-> <<>>, dir |-> dir]
    ELSE IF c.tool = "chat_with_codebase" /\ (c.question = <<>> \/ Strip(c.question) = <<>>)
    THEN [text |-> NoQuestionText, effects |-> <<>>, dir |-> dir]
    ELSE IF c.load_error # None
    THEN [text |-> ErrorPrefix \o <<" ">> \o c.load_error[1],
          effects |-> <<LoadEffect(c)>>, dir |-> dir]
    ELSE IF c.api_key = ""
    THEN [text |-> NoApiKeyText, effects |-> <<LoadEffect(c)>>, dir |-> dir]
    ELSE IF c.analysis_error # None
    THEN [text |-> ErrorPrefix \o <<" ">> \o c.analysis_error[1],
          effects |-> <<LoadEffect(c), "model_call">>, dir |-> dir]
    ELSE IF c.tool = "analyze_codebase"
    THEN [text |-> c.content,
          effects |-> <<LoadEffect(c), "model_call", "save_diagram">>,
          dir |-> SaveDiagram(dir, c.content, RawPrefix, c.repo_name, NoDict, now, "ok")]
    ELSE [text |-> c.content, effects |-> <<LoadEffect(c), "model_call">>, dir |-> dir]

\* analyze_codebase (lines 19-39), get_architecture_summary (47-61) and
\* chat_with_codebase (69-85): the text returned, what was done, and the
\* diagrams directory after the call
RunTool(dir, now, c) ==
    IF ~Truthy(c.github_url) /\ ~Truthy(c.file_path)
    THEN [text |-> NoSourceText, effects |-> <<>>, dir |-> dir]
    ELSE IF c.api_key = ""
    THEN [text |-> NoApiKeyText, effects |-> <<>>, dir |-> dir]
    ELSE IF c.tool = "chat_with_codebase" /\ (c.question = <<>> \/ Strip(c.question) = <<>>)
    THEN [text |-> NoQuestionText, effects |-> <<>>, dir |-> dir]
    ELSE IF c.load_error # None
    THEN [text |-> ErrorPrefix \o <<" ">> \o c.load_error[1],
          effects |-> <<LoadEffect(c)>>, dir |-> dir]
    ELSE IF c.analysis_error # None
    THEN [text |-> ErrorPrefix \o <<" ">> \o c.analysis_error[1],
          effects |-> <<LoadEffect(c), "model_call">>, dir |-> dir]
    ELSE IF c.tool = "analyze_codebase"
    THEN [text |-> c.content,
          effects |-> <<LoadEffect(c), "model_call", "save_diagram">>,
          dir |-> SaveDiagram(dir, c.content, RawPrefix, c.repo_name, NoDict, now, "ok")]
    ELSE [text |-> c.content, effects |-> <<LoadEffect(c), "model_call">>, dir |-> dir]

\* the URLs, paths and questions a caller gives
GivenUrls == {None, Some(<<>>), Some(<<" ">>), Some(GithubUrl)}
GivenPaths == {None, Some(<<>>), Some(UploadPath)}
GivenQuestions == {<<>>, <<" ", NL>>, <<"w", "h", "y", "?">>}

\* the diagrams directories earlier calls may have left: none, or one with
\* a diagram saved without a label
EarlierDirectories ==
    {<<>>, SaveDiagram(<<>>, SampleDot, RawPrefix, <<>>, NoDict, 0, "ok")}

InitInput ==
    /\ session_file \in EarlierFiles
    /\ config = LoadFromSession(NewConfig([gemini |-> "", openai |-> "", elevenlabs |-> ""]),
                                session_file)
    /\ ui_op = "none"
    /\ saved_keys = {}
    /\ pending_run = NotRunning
    /\ diagrams_dir \in EarlierDirectories
    /\ clock = 0
    /\ render_call = NoCall
    /\ html = NoHtml
    /\ TextIdle /\ DownloadIdle /\ ZipIdle /\ HistoryIdle

\* a call of one of the three tools
CallTool ==
    /\ dot_op = "none"
    /\ \E tool \in McpTools, api_key \in ApiKeys, github_url \in GivenUrls,
          file_path \in GivenPaths :
       \E question \in (IF tool = "chat_with_codebase" THEN GivenQuestions ELSE {<<>>}),
          load_error \in {None, Some(NotFoundText)},
          analysis_error \in {None, Some(EmptyResponseText)} :
       \E c \in {[op |-> tool, tool |-> tool, api_key |-> api_key,
                  github_url |-> github_url, file_path |-> file_path,
                  question |-> question, load_error |-> load_error,
                  repo_name |-> OctoCat, analysis_error |-> analysis_error,
                  content |-> SampleDot]} :
       \E r \in {RunTool(diagrams_dir, clock, c)} :
          /\ render_call' = c
          /\ dot_mid' = "returned"
          /\ dot_out' = r.text
          /\ dl_log' = r.effects
          /\ diagrams_dir' = r.dir
    /\ dot_op' = "tool"
    /\ UNCHANGED <<session_file, ui_op, saved_keys>>
    /\ UNCHANGED outsideInput

\* a call of start_analysis from the landing page
CallStartAnalysis ==
    /\ dot_op = "none"
    /\ \E file_path \in GivenPaths, github_url \in GivenUrls,
          selected_model \in ModelChoices :
       \E error \in {StartAnalysisError(session_file, file_path, github_url)} :
          /\ render_call' = [op |-> "start_analysis", file_path |-> file_path,
                             github_url |-> github_url]
          /\ IF error # None
             THEN /\ dot_mid' = "raised"
                  /\ dot_out' = error[1]
                  /\ UNCHANGED session_file
                  /\ saved_keys' = {}
             ELSE /\ dot_mid' = "returned"
                  /\ dot_out' = <<>>
                  /\ session_file' =
                         SaveSessionState(session_file,
                             StartAnalysisData(file_path, github_url, selected_model),
                             "ok")
                  /\ saved_keys' = {"model", "pending_request", "dot_source",
                                    "repo_name", "stats"}
    /\ dot_op' = "start_analysis"
    /\ ui_op' = "start_analysis"
    /\ dl_log' = <<>>
    /\ UNCHANGED diagrams_dir
    /\ UNCHANGED outsideInput

NextInput == CallTool \/ CallStartAnalysis

SpecInput == InitInput /\ [][NextInput]_vars

\* nothing that is not empty was given: None, or ""
NotGiven(opt) == opt = None \/ opt = Some(<<>>)

\* the call c of a tool has an input error: neither a URL nor a path, an
\* empty API key, or, for chat_with_codebase, a blank question
ToolInputError(c) ==
    \/ NotGiven(c.github_url) /\ NotGiven(c.file_path)
    \/ c.api_key = ""
    \/ c.tool = "chat_with_codebase" /\ \A i \in 1..Len(c.question) : c.question[i] \in Whitespace

\* the call c of start_analysis has no source (no file, and no URL or a
\* blank one), or the session file `file` has no API key
StartInputError(c, file) ==
    \/ NotGiven(c.file_path)
           /\ (NotGiven(c.github_url)
                   \/ \A i \in 1..Len(c.github_url[1]) : c.github_url[1][i] \in Whitespace)
    \/ ~file.exists
    \/ "api_key" \notin DOMAIN file.data
    \/ file.data.api_key = ""

\* C20: input errors are reported before any work is attempted.  A step that
\* is a call of an MCP tool with neither a URL nor a file path, with an empty
\* API key, or (chat) with a blank question returns a text that begins with
\* 'Error:', and nothing is loaded, no model is called and the diagrams
\* directory stays as it is; a step that is a call of start_analysis with no
\* source or with no stored API key raises the user error and the session
\* state file stays as it is.
C20_InputErrorsBeforeAnyWork ==
    [][/\ (render_call'.op \in McpTools /\ ToolInputError(render_call')) =>
              /\ dot_mid' = "returned"
              /\ StartsWith(dot_out', ErrorPrefix)
              /\ dl_log' = <<>>
              /\ diagrams_dir' = diagrams_dir
              /\ session_file' = session_file
       /\ (render_call'.op = "start_analysis" /\ StartInputError(render_call', session_file)) =>
              /\ dot_mid' = "raised"
              /\ dot_out' \in {NoInputText, NoKeyConfiguredText}
              /\ session_file' = session_file
              /\ diagrams_dir' = diagrams_dir
      ]_vars

\* chat_with_codebase was called with a URL, a key and a blank question when
\* the history had a diagram: it returned the error and did nothing
C20_BlankQuestionRefused ==
    /\ render_call.op = "chat_with_codebase"
    /\ render_call.github_url = Some(GithubUrl)
    /\ render_call.api_key = "sk"
    /\ render_call.question = <<" ", NL>>
    /\ render_call.load_error = None
    /\ render_call.analysis_error = None
    /\ dot_out = NoQuestionText
    /\ dl_log = <<>>
    /\ diagrams_dir # <<>>
    /\ session_file.exists

-----------------------------------------------------------------------------
(* CodeAnalyzer.generate_diagram (src/src/core/analyzer.py 191-235).  The  *)
(* model answers with a text or with None, or the call of the model        *)
(* raises; `response` is a record with the kind and the text.              *)

\* AnalysisResult (lines 116-121)
AnalysisSucceeded(content) == [content |-> content, success |-> TRUE, error |-> None]
AnalysisFailed(error) == [content |-> <<>>, success |-> FALSE, error |-> Some(error)]

RateLimitWaitText ==
    <<"R", "a", "t", "e", " ", "l", "i", "m", "i", "t", "e", "d", ".",
      " ", "P", "l", "e", "a", "s", "e", " ", "w", "a", "i", "t", " ",
      "a", "n", "d", " ", "t", "r", "y", " ", "a", "g", "a", "i", "n",
      ".">>

InvalidApiKeyText ==
    <<"I", "n", "v", "a", "l", "i", "d", " ", "A", "P", "I", " ", "k",
      "e", "y", ".">>

InvalidDotPrefix ==
    <<"I", "n", "v", "a", "l", "i", "d", " ", "D", "O", "T", " ", "c",
      "o", "d", "e", ":", " ">>

\* str(e) of the AttributeError that content.strip() raises when the model
\* answered None
NoneHasNoStripText ==
    <<"'", "N", "o", "n", "e", "T", "y", "p", "e", "'", " ", "o", "b",
      "j", "e", "c", "t", " ", "h", "a", "s", " ", "n", "o", " ", "a",
      "t", "t", "r", "i", "b", "u", "t", "e", " ", "'", "s", "t", "r",
      "i", "p", "'">>

LangDot == <<"d", "o", "t">>
LangGraphviz == KwGraph \o <<"v", "i", "z">>

\* the first place from p on that is not whitespace, Len(s) + 1 if none
SkipWhitespace(s, p) ==
    Bind({i \in p..Len(s) : s[i] \notin Whitespace}, LAMBDA rest :
         IF rest = {} THEN Len(s) + 1 ELSE MinOf(rest))

\* line 214: re.search(r"```(?:dot|graphviz)?\s*(.*?)\s*```", content,
\* re.DOTALL).  The match starts at the first fence that has a fence after
\* it; the language name and the whitespace after it are passed over, and
\* group 1 ends before the whitespace that stands before the next fence.
FencedBody(content) ==
    Bind(Occurrences(content, Fence), LAMBDA fences :
    Bind({i \in fences : \E j \in fences : j >= i + Len(Fence)}, LAMBDA opens :
         IF opens = {} THEN None
         ELSE Bind(MinOf(opens) + Len(Fence), LAMBDA after :
              Bind(IF StartsWithAt(content, LangDot, after) THEN after + Len(LangDot)
                   ELSE IF StartsWithAt(content, LangGraphviz, after)
                   THEN after + Len(LangGraphviz)
                   ELSE after, LAMBDA named :
              Bind(SkipWhitespace(content, named), LAMBDA first :
              Bind(MinOf({j \in fences : j >= first}), LAMBDA close :
              Bind({q \in first..close : \A k \in q..(close - 1) : content[k] \in Whitespace},
                   LAMBDA ends :
                   Some(SubSeq(content, first, MinOf(ends) - 1)))))))))

\* line 215
ExtractDot(content) ==
    Bind(FencedBody(content), LAMBDA match :
         IF match # None THEN Strip(match[1]) ELSE Strip(content))

\* as ClassifyFailure, with the test for 401 and 403 before the test for the
\* rate-limit markers
ClassifyFailureKeyFirst(error_str) ==
    IF Contains(error_str, <<"4", "0", "1">>) \/ Contains(error_str, <<"4", "0", "3">>)
    THEN AnalysisFailed(InvalidApiKeyText)
    ELSE IF \/ Contains(error_str, <<"4", "2", "9">>)
            \/ Contains(error_str, <<"R", "E", "S", "O", "U", "R", "C", "E", "_",
                                     "E", "X", "H", "A", "U", "S", "T", "E", "D">>)
    THEN AnalysisFailed(RateLimitWaitText)
    ELSE AnalysisFailed(error_str)

\* lines 228-235: the result for an exception whose str() is error_str
ClassifyFailure(error_str) ==
    IF \/ Contains(error_str, <<"4", "2", "9">>)
       \/ Contains(error_str, <<"R", "E", "S", "O", "U", "R", "C", "E", "_",
                                "E", "X", "H", "A", "U", "S", "T", "E", "D">>)
    THEN AnalysisFailed(RateLimitWaitText)
    ELSE IF Contains(error_str, <<"4", "0", "1">>) \/ Contains(error_str, <<"4", "0", "3">>)
    THEN AnalysisFailed(InvalidApiKeyText)
    ELSE AnalysisFailed(error_str)

\* generate_diagram
GenerateDiagram(response) ==
    IF response.kind = "raises" THEN ClassifyFailure(response.text)
    ELSE IF response.kind = "none" THEN ClassifyFailure(NoneHasNoStripText)
    ELSE IF Strip(response.text) = <<>> THEN AnalysisFailed(EmptyResponseText)
    ELSE Bind(ExtractDot(response.text), LAMBDA dot_content :
         IF ~Contains(dot_content, KwDigraph) /\ ~Contains(dot_content, KwGraph)
         THEN AnalysisFailed(InvalidDotPrefix \o Take(dot_content, 200))
         ELSE AnalysisSucceeded(dot_content))

MaxAnalyzerTokens == 4

AnalyzerTokens == {Fence, <<NL>>, KwGraph, <<"x">>, LangDot, <<"v", "i", "z">>}

AnalyzerTexts == {Flatten(ts) : ts \in SeqsUpTo(AnalyzerTokens, MaxAnalyzerTokens)}

\* what str(e) can be for a failure of the model call
FailureTexts ==
    {<<>>,
     <<"b", "o", "o", "m">>,
     <<"4", "2", "9", " ", "T", "o", "o", " ", "M", "a", "n", "y", " ",
       "R", "e", "q", "u", "e", "s", "t", "s">>,
     <<"R", "E", "S", "O", "U", "R", "C", "E", "_", "E", "X", "H", "A",
       "U", "S", "T", "E", "D">>,
     <<"4", "0", "1", " ", "U", "n", "a", "u", "t", "h", "o", "r", "i",
       "z", "e", "d">>,
     <<"4", "0", "3", " ", "F", "o", "r", "b", "i", "d", "d", "e", "n">>,
     <<"4", "0", "3", " ", "q", "u", "o", "t", "a", ";", " ", "r", "e",
       "t", "r", "y", " ", "a", "f", "t", "e", "r", " ", "4", "2", "9",
       " ", "s">>,
     <<"H", "T", "T", "P", " ", "4", "2", "9", "0">>,
     <<"c", "o", "d", "e", " ", "4", "0">>}

InitAnalyzer ==
    /\ dot_in \in AnalyzerTexts
    /\ dot_mid = <<>>
    /\ dot_out = <<>>
    /\ dot_op = "none"
    /\ RenderIdle
    /\ OutsideDiagramIdle

\* generate_diagram when the model answers with the text dot_in
CallGenerateDiagram ==
    /\ dot_op = "none"
    /\ \E response \in {[kind |-> "text", text |-> dot_in]} :
          /\ render_call' = [op |-> "generate_diagram", response |-> response]
          /\ dot_mid' = GenerateDiagram(response)
    /\ dot_op' = "generate_diagram"
    /\ UNCHANGED <<dot_in, dot_out, diagrams_dir, clock, html>>
    /\ UNCHANGED outsideDiagram

\* generate_diagram when the model answers None or the call raises
CallGenerateDiagramFails ==
    /\ dot_op = "none"
    /\ \E response \in {[kind |-> "none", text |-> <<>>]}
                           \cup {[kind |-> "raises", text |-> t] : t \in FailureTexts} :
          /\ render_call' = [op |-> "generate_diagram", response |-> response]
          /\ dot_mid' = GenerateDiagram(response)
    /\ dot_op' = "generate_diagram"
    /\ UNCHANGED <<dot_in, dot_out, diagrams_dir, clock, html>>
    /\ UNCHANGED outsideDiagram

NextAnalyzer == CallGenerateDiagram \/ CallGenerateDiagramFails

SpecAnalyzer == InitAnalyzer /\ [][NextAnalyzer]_vars

\* the text carries a rate-limit marker
HasRateLimitMarker(t) ==
    \/ \E i \in 1..(Len(t) - 2) : SubSeq(t, i, i + 2) = <<"4", "2", "9">>
    \/ \E i \in 1..(Len(t) - 17) :
          SubSeq(t, i, i + 17) = <<"R", "E", "S", "O", "U", "R", "C", "E", "_",
                                   "E", "X", "H", "A", "U", "S", "T", "E", "D">>

\* the text carries 401 or 403
HasAuthMarker(t) ==
    \E i \in 1..(Len(t) - 2) : SubSeq(t, i, i + 2) \in {<<"4", "0", "1">>, <<"4", "0", "3">>}

\* the text is a part of the text t that starts at i
IsPartOf(part, t) ==
    \E i \in 1..(Len(t) - Len(part) + 1) : SubSeq(t, i, i + Len(part) - 1) = part

\* C21: generate_diagram always returns an AnalysisResult.  It reports
\* success only for a response that is not empty and whose extracted DOT
\* body, which is its content, contains 'digraph' or 'graph'; an empty
\* response gives the empty-response error and a body with neither keyword
\* the invalid-DOT error.  A failure of the model whose text has 429 or
\* RESOURCE_EXHAUSTED gives the rate-limit message, otherwise one with 401
\* or 403 the invalid-API-key message, and any other the raw text.  Every
\* failure result has empty content.
C21_ResultOfGenerateDiagram ==
    dot_op = "generate_diagram" =>
        LET response == render_call.response
            result == dot_mid
        IN  /\ DOMAIN result = {"content", "success", "error"}
            /\ result.success \in BOOLEAN
            /\ result.success = (result.error = None)
            /\ ~result.success => result.content = <<>>
            /\ result.success =>
                  /\ response.kind = "text"
                  /\ \E i \in 1..Len(response.text) : response.text[i] \notin Whitespace
                  /\ Contains(result.content, KwGraph)
                  /\ IsPartOf(result.content, response.text)
                  /\ result.content = ExtractDot(response.text)
            /\ response.kind = "text" =>
                  IF \A i \in 1..Len(response.text) : response.text[i] \in Whitespace
                  THEN result.error = Some(EmptyResponseText)
                  ELSE IF ~Contains(ExtractDot(response.text), KwGraph)
                  THEN /\ result.error # None
                       /\ StartsWith(result.error[1], InvalidDotPrefix)
                       /\ result.error[1] # EmptyResponseText
                  ELSE result.success
            /\ response.kind = "raises" =>
                  result.error =
                      Some(IF HasRateLimitMarker(response.text) THEN RateLimitWaitText
                           ELSE IF HasAuthMarker(response.text) THEN InvalidApiKeyText
                           ELSE response.text)
            /\ response.kind = "none" => ~result.success

\* the answer was a fenced block named dot with a graph in it, and the
\* result is the body of the block
C21_FencedGraphAccepted ==
    /\ dot_op = "generate_diagram"
    /\ render_call.response = [kind |-> "text", text |-> Fence \o LangDot \o KwGraph \o Fence]
    /\ dot_mid = AnalysisSucceeded(KwGraph)

-----------------------------------------------------------------------------
(* _is_allowed_file on paths made of directory names and a file name.      *)

MaxPathDirs == 2

\* src, tests, Tests, node_modules, test_data, my.build
PathDirs ==
  {
    <<"s", "r", "c">>,
    <<"t", "e", "s", "t", "s">>,
    <<"T", "e", "s", "t", "s">>,
    <<"n", "o", "d", "e", "_", "m", "o", "d", "u", "l", "e", "s">>,
    <<"t", "e", "s", "t", "_", "d", "a", "t", "a">>,
    <<"m", "y", ".", "b", "u", "i", "l", "d">>
  }

\* README, package-lock.json, test_util.py, util.py, Makefile, a.spec.ts,
\* TEST_x.py, conftest.py, notes.md, x.bin, .gitignore, Utest_.java
PathNames ==
  {
    <<"R", "E", "A", "D", "M", "E">>,
    <<"p", "a", "c", "k", "a", "g", "e", "-", "l", "o", "c", "k", ".",
      "j", "s", "o", "n">>,
    <<"t", "e", "s", "t", "_", "u", "t", "i", "l", ".", "p", "y">>,
    <<"u", "t", "i", "l", ".", "p", "y">>,
    <<"M", "a", "k", "e", "f", "i", "l", "e">>,
    <<"a", ".", "s", "p", "e", "c", ".", "t", "s">>,
    <<"T", "E", "S", "T", "_", "x", ".", "p", "y">>,
    <<"c", "o", "n", "f", "t", "e", "s", "t", ".", "p", "y">>,
    <<"n", "o", "t", "e", "s", ".", "m", "d">>,
    <<"x", ".", "b", "i", "n">>,
    <<".", "g", "i", "t", "i", "g", "n", "o", "r", "e">>,
    <<"U", "t", "e", "s", "t", "_", ".", "j", "a", "v", "a">>
  }

\* "/".join(dirs + [filename])
PathOf(dirs, filename) == Flatten([k \in 1..Len(dirs) |-> dirs[k] \o <<"/">>]) \o filename

InitAdmission ==
    /\ \E dirs \in SeqsUpTo(PathDirs, MaxPathDirs), filename \in PathNames :
          /\ dot_in = PathOf(dirs, filename)
          /\ dot_mid = [dirs |-> dirs, filename |-> filename]
    /\ dot_out = <<>>
    /\ dot_op = "none"
    /\ RenderIdle
    /\ OutsideDiagramIdle

\* _is_allowed_file(file_path, aggressive)
CallIsAllowedFile ==
    /\ dot_op = "none"
    /\ \E aggressive \in BOOLEAN :
          /\ render_call' = [op |-> "is_allowed_file", aggressive |-> aggressive]
          /\ dot_out' = IsAllowedFile(dot_in, aggressive)
    /\ dot_op' = "is_allowed_file"
    /\ UNCHANGED <<dot_in, dot_mid, diagrams_dir, clock, html>>
    /\ UNCHANGED outsideDiagram

NextAdmission == CallIsAllowedFile

SpecAdmission == InitAdmission /\ [][NextAdmission]_vars

\* the letters of a text made lower-case, the other characters kept
LowerCased(t) ==
    [i \in 1..Len(t) |->
        IF t[i] \in Upper
        THEN Ascii[(CHOOSE k \in 1..Len(Ascii) : Ascii[k] = t[i]) + 32]
        ELSE t[i]]

\* a rejection rule applies to the file: its name is a blocked pattern, one
\* of its directories is a blocked directory, or its lower-cased name has a
\* test-file marker
RejectionRuleApplies(dirs, filename) ==
    \/ filename \in BLOCKED_PATTERNS
    \/ \E k \in 1..Len(dirs) : dirs[k] \in BLOCKED_DIRS
    \/ \E marker \in TEST_FILE_PATTERNS :
       \E i \in 1..(Len(filename) - Len(marker) + 1) :
           SubSeq(LowerCased(filename), i, i + Len(marker) - 1) = marker

\* C22: a file whose name is in the blocked-pattern set, or which has a
\* directory segment in the blocked-directory set, or whose lower-cased name
\* contains a test-file marker, is never admitted by _is_allowed_file, also
\* when its name is an allow-listed special file or ends with an allow-listed
\* extension.
C22_RejectionBeforeAcceptance ==
    dot_op = "is_allowed_file" =>
        (RejectionRuleApplies(dot_mid.dirs, dot_mid.filename) => dot_out = FALSE)

\* tests/README is not admitted, with the default filtering
C22_ReadmeUnderTestsRejected ==
    /\ dot_op = "is_allowed_file"
    /\ dot_in = <<"t", "e", "s", "t", "s", "/", "R", "E", "A", "D", "M", "E">>
    /\ ~render_call.aggressive
    /\ dot_out = FALSE

-----------------------------------------------------------------------------
(* The core extension set in a large archive (repository.py 176-180),      *)
(* checked on the archives of SpecLargeRepo.                               *)

\* the name of the file ends in one of the eight core extensions
HasCoreExtension(path) ==
    \E ext \in {<<".", "p", "y">>, <<".", "j", "s">>, <<".", "t", "s">>,
                <<".", "j", "s", "x">>, <<".", "t", "s", "x">>,
                <<".", "j", "a", "v", "a">>, <<".", "g", "o">>, <<".", "r", "s">>} :
        /\ Len(path) >= Len(ext)
        /\ SubSeq(path, Len(path) - Len(ext) + 1, Len(path)) = ext

\* C23: when the aggregate size of the archive is over LARGE_REPO_THRESHOLD,
\* every file with a block in the context has a name that ends in one of
\* .py, .js, .ts, .jsx, .tsx, .java, .go, .rs.
C23_OnlyCoreExtensionsInLargeRepo ==
    (zip_pc = "done" /\ AggregateSize(zip_archive) > LARGE_REPO_THRESHOLD) =>
        \A e \in zip_archive :
            HasBlockOf(zip_context, e.path) => HasCoreExtension(e.path)

-----------------------------------------------------------------------------
(* DiagramGenerator._apply_layout (diagram.py 198-228) on diagram sources  *)
(* with layout declarations and labels in the body.  The source is         *)
(* "digraph G {", the chosen body lines and "}", one per line; dot_mid     *)
(* keeps the body lines.                                                   *)

MaxLayoutLines == 2

BareRankdir ==
    <<"r", "a", "n", "k", "d", "i", "r", "=", "L", "R", ";">>
QuotedRankdir ==
    <<"r", "a", "n", "k", "d", "i", "r", "=", QUOTE, "L", "R", QUOTE,
      ";">>
SpacedSplines ==
    <<"s", "p", "l", "i", "n", "e", "s", " ", "=", " ", "o", "r", "t",
      "h", "o">>
BareNodesep ==
    <<"n", "o", "d", "e", "s", "e", "p", "=", "0", ".", "2", "5", ";">>
QuotedRanksep ==
    <<"r", "a", "n", "k", "s", "e", "p", "=", QUOTE, "1", ".", "5",
      QUOTE, ";">>
LabelledEdge ==
    <<"a", " ", "-", ">", " ", "b", " ", "[", "l", "a", "b", "e", "l",
      "=", QUOTE, "x", QUOTE, "]", ";">>
HeadLabelledEdge ==
    <<"a", " ", "-", ">", " ", "b", " ", "[", "h", "e", "a", "d", "l",
      "a", "b", "e", "l", "=", QUOTE, "h", QUOTE, "]", ";">>
TwiceLabelledEdge ==
    <<"a", " ", "-", ">", " ", "b", " ", "[", "x", "l", "a", "b", "e",
      "l", "=", QUOTE, "y", QUOTE, ",", " ", "l", "a", "b", "e", "l",
      "=", QUOTE, "z", QUOTE, "]", ";">>
PlainEdge ==
    <<"a", " ", "-", ">", " ", "b", ";">>
LabelledNode ==
    <<"a", " ", "[", "l", "a", "b", "e", "l", "=", QUOTE, "n", QUOTE,
      "]", ";">>

LayoutBodyLines ==
    {BareRankdir, QuotedRankdir, SpacedSplines, BareNodesep, QuotedRanksep,
     LabelledEdge, HeadLabelledEdge, TwiceLabelledEdge, PlainEdge, LabelledNode}

\* the four edge styles of the UI (LayoutOptions, line 35)
KwSpline == <<"s", "p", "l", "i", "n", "e">>
KwLine == <<"l", "i", "n", "e">>

LayoutChoices ==
    {DefaultLayout, OrthoLayout,
     [direction |-> <<"B", "T">>, splines |-> KwSpline, nodesep |-> <<"0", ".", "5">>,
      ranksep |-> <<"0", ".", "7", "5">>, zoom |-> <<"1", ".", "0">>],
     [direction |-> <<"R", "L">>, splines |-> KwLine, nodesep |-> <<"0", ".", "3">>,
      ranksep |-> <<"2", ".", "0">>, zoom |-> <<"1", ".", "0">>]}

SourceOf(body) ==
    KwDigraph \o <<" ", "G", " ", "{", NL>>
    \o Flatten([k \in 1..Len(body) |-> body[k] \o <<NL>>]) \o <<"}">>

InitLayout ==
    /\ \E body \in SeqsUpTo(LayoutBodyLines, MaxLayoutLines) :
          /\ dot_in = SourceOf(body)
          /\ dot_mid = body
    /\ dot_out = <<>>
    /\ dot_op = "none"
    /\ RenderIdle
    /\ OutsideDiagramIdle

\* _apply_layout(dot_source, layout)
CallApplyLayout ==
    /\ dot_op = "none"
    /\ \E layout \in LayoutChoices :
          /\ render_call' = [op |-> "apply_layout", layout |-> layout]
          /\ dot_out' = ApplyLayout(dot_in, layout)
    /\ dot_op' = "apply_layout"
    /\ UNCHANGED <<dot_in, dot_mid, diagrams_dir, clock, html>>
    /\ UNCHANGED outsideDiagram

NextLayout == CallApplyLayout

SpecLayout == InitLayout /\ [][NextLayout]_vars

\* where t has a declaration of the attribute: its name, not inside a longer
\* word, then blanks and "="
DeclarationsOf(t, name) ==
    {i \in 1..(Len(t) - Len(name)) :
        /\ SubSeq(t, i, i + Len(name) - 1) = name
        /\ i = 1 \/ t[i - 1] \notin WordChars
        /\ \E j \in (i + Len(name))..Len(t) :
              /\ t[j] = "="
              /\ \A k \in (i + Len(name))..(j - 1) : t[k] \in Whitespace}

\* the text "\n    name=value;" starts at position i of t
DeclaredAt(t, i, name, value) ==
    LET d == <<NL, " ", " ", " ", " ">> \o name \o <<"=">> \o value \o <<";">>
    IN  /\ i + Len(d) - 1 <= Len(t)
        /\ SubSeq(t, i, i + Len(d) - 1) = d

\* C24: after _apply_layout the source has exactly one declaration each of
\* rankdir, splines, nodesep and ranksep, with the value of the layout
\* options, in this order right after the first opening brace; the
\* declarations that were in the body, quoted or bare, are gone.
C24_OneDeclarationOfEach ==
    dot_op = "apply_layout" =>
        LET layout == render_call.layout
            brace == CHOOSE i \in 1..Len(dot_out) :
                         /\ dot_out[i] = "{"
                         /\ \A j \in 1..(i - 1) : dot_out[j] # "{"
            p1 == brace + 1
            p2 == p1 + 14 + Len(layout.direction)
            p3 == p2 + 14 + Len(layout.splines)
            p4 == p3 + 14 + Len(layout.nodesep)
        IN  /\ \A name \in {KwRankdir, KwSplines, KwNodesep, KwRanksep} :
                  Cardinality(DeclarationsOf(dot_out, name)) = 1
            /\ DeclaredAt(dot_out, p1, KwRankdir, layout.direction)
            /\ DeclaredAt(dot_out, p2, KwSplines, layout.splines)
            /\ DeclaredAt(dot_out, p3, KwNodesep, layout.nodesep)
            /\ DeclaredAt(dot_out, p4, KwRanksep, layout.ranksep)

\* the same for the sources whose layout declarations have bare values
C24_BareDeclarationsReplaced ==
    (dot_op = "apply_layout"
        /\ \A k \in 1..Len(dot_mid) : dot_mid[k] \notin {QuotedRankdir, QuotedRanksep}) =>
        LET layout == render_call.layout
            brace == CHOOSE i \in 1..Len(dot_out) :
                         /\ dot_out[i] = "{"
                         /\ \A j \in 1..(i - 1) : dot_out[j] # "{"
        IN  /\ \A name \in {KwRankdir, KwSplines, KwNodesep, KwRanksep} :
                  Cardinality(DeclarationsOf(dot_out, name)) = 1
            /\ DeclaredAt(dot_out, brace + 1, KwRankdir, layout.direction)

KwHeadLabelEq == <<"h", "e", "a", "d">> \o KwLabelEq

\* where the line has an attribute named label: "label=" not inside a longer
\* name such as xlabel or headlabel
InlineLabels(line) ==
    {i \in 1..(Len(line) - 5) :
        /\ SubSeq(line, i, i + 5) = KwLabelEq
        /\ i = 1 \/ line[i - 1] \notin WordChars}

\* the lines of t
LinesOf(t) ==
    LET ends == <<0>> \o Ascending({i \in 1..Len(t) : t[i] = NL}) \o <<Len(t) + 1>>
    IN  [k \in 1..(Len(ends) - 1) |-> SubSeq(t, ends[k] + 1, ends[k + 1] - 1)]

\* the number of places of t where part stands
CountOf(t, part) ==
    Cardinality({i \in 1..(Len(t) - Len(part) + 1) :
                    SubSeq(t, i, i + Len(part) - 1) = part})

\* C25: with the style ortho no line of the output with an edge operator has
\* an attribute named label, while the node statements, the injected node
\* and edge defaults and the headlabel attributes are as they were; with
\* another style the output has the label attributes of the input.
C25_EdgeLabelsMadeExternal ==
    dot_op = "apply_layout" =>
        LET out == LinesOf(dot_out)
            has(line) == \E k \in 1..Len(out) : out[k] = line
        IN  IF render_call.layout.splines = KwOrtho
            THEN /\ \A k \in 1..Len(out) :
                        (\E i \in 1..(Len(out[k]) - 1) : SubSeq(out[k], i, i + 1) = <<"-", ">">>)
                            => InlineLabels(out[k]) = {}
                 /\ \A k \in 1..Len(dot_mid) : dot_mid[k] = LabelledNode => has(LabelledNode)
                 /\ has(<<" ", " ", " ", " ">> \o NodeDefaults)
                 /\ has(<<" ", " ", " ", " ">> \o EdgeDefaults)
                 /\ CountOf(dot_out, KwHeadLabelEq) = CountOf(dot_in, KwHeadLabelEq)
            ELSE /\ CountOf(dot_out, KwLabelEq) = CountOf(dot_in, KwLabelEq)
                 /\ CountOf(dot_out, KwXlabelEq) = CountOf(dot_in, KwXlabelEq)

\* the same for the sources whose edges have at most the one attribute label
C25_SingleLabelMadeExternal ==
    (dot_op = "apply_layout"
        /\ \A k \in 1..Len(dot_mid) : dot_mid[k] \notin {HeadLabelledEdge, TwiceLabelledEdge}) =>
        LET out == LinesOf(dot_out)
            has(line) == \E k \in 1..Len(out) : out[k] = line
        IN  IF render_call.layout.splines = KwOrtho
            THEN /\ \A k \in 1..Len(out) :
                        (\E i \in 1..(Len(out[k]) - 1) : SubSeq(out[k], i, i + 1) = <<"-", ">">>)
                            => InlineLabels(out[k]) = {}
                 /\ \A k \in 1..Len(dot_mid) : dot_mid[k] = LabelledNode => has(LabelledNode)
                 /\ has(<<" ", " ", " ", " ">> \o NodeDefaults)
                 /\ has(<<" ", " ", " ", " ">> \o EdgeDefaults)
            ELSE /\ CountOf(dot_out, KwLabelEq) = CountOf(dot_in, KwLabelEq)
                 /\ CountOf(dot_out, KwXlabelEq) = CountOf(dot_in, KwXlabelEq)

-----------------------------------------------------------------------------
(* The explore page (src/src/ui/app.py): the diagram source the page keeps *)
(* in current_dot (dot_in here, <<>> for None), the session file and the   *)
(* diagrams directory, under page loads without a pending request, layout  *)
(* changes, loads from the history and analyses that end with a diagram.   *)
(* dot_op is the handler that ran last.                                    *)

MaxAnalyses == 1

EmptyStateHtml == [kind |-> "empty", text |-> <<>>, error |-> None, zoom |-> <<>>]
PageErrorHtml == [kind |-> "page_error", text |-> <<>>, error |-> None, zoom |-> <<>>]

\* a diagram as the analyzer returns it, without and with a direction
PlainDot ==
    <<"d", "i", "g", "r", "a", "p", "h", " ", "G", " ", "{", NL, "A", " ", "-", ">",
      " ", "B", NL, "}">>
DirectedDot ==
    <<"d", "i", "g", "r", "a", "p", "h", " ", "G", " ", "{", NL, "r", "a", "n", "k",
      "d", "i", "r", "=", "L", "R", ";", NL, "A", " ", "-", ">", " ", "B", NL, "}">>

PageDiagrams == {PlainDot, DirectedDot}

\* the call render(dot_source, layout, repo_name) of the three handlers
\* that do not save
RenderOnly(dot_source, layout, repo_name, now, gv, ok) ==
    [op |-> "render", dot_source |-> dot_source, layout |-> layout,
     repo_name |-> repo_name, save_to_history |-> FALSE, metadata |-> NoDict,
     now |-> now, io |-> "ok", graphviz_available |-> gv, renderer_ok |-> ok]

\* apply_layout if the page kept the source it has just drawn
ApplyLayoutClickKeepsResult(dir, current_dot, layout, now, gv, ok) ==
    IF current_dot = <<>>
    THEN [html |-> EmptyStateHtml, dir |-> dir, current_dot |-> current_dot, call |-> NoCall]
    ELSE Bind(RenderOnly(current_dot, layout, <<>>, now, gv, ok), LAMBDA c :
         Bind(RenderResult(dir, c), LAMBDA r :
              [html |-> r.html, dir |-> r.dir, current_dot |-> r.html.text, call |-> c]))

\* apply_layout (app.py 430-437) with its outputs (541-545): the diagram
\* view alone, current_dot stays
ApplyLayoutClick(dir, current_dot, layout, now, gv, ok) ==
    IF current_dot = <<>>
    THEN [html |-> EmptyStateHtml, dir |-> dir, current_dot |-> current_dot, call |-> NoCall]
    ELSE Bind(RenderOnly(current_dot, layout, <<>>, now, gv, ok), LAMBDA c :
         Bind(RenderResult(dir, c), LAMBDA r :
              [html |-> r.html, dir |-> r.dir, current_dot |-> current_dot, call |-> c]))

\* the names the history dropdown can hold: the .dot files, and one that
\* is gone
HistoryChoices(dir) ==
    {name \in DOMAIN dir : Len(name) >= 4 /\ SubSeq(name, Len(name) - 3, Len(name)) = DotSuffix}
    \cup {<<"r", "a", "w", "_", "g", "o", "n", "e", ".", "d", "o", "t">>}

InitPage ==
    /\ \E earlier \in PageDiagrams \cup {<<>>}, kept \in PageDiagrams \cup {<<>>} :
          /\ diagrams_dir =
                 IF earlier = <<>> THEN <<>>
                 ELSE SaveDiagram(<<>>, PrepareDot(earlier), RawPrefix, OctoCat,
                                  SampleMetadata, 0, "ok")
          /\ session_file =
                 IF kept = <<>> THEN NoFile
                 ELSE [exists |-> TRUE,
                       data |-> [DefaultSession EXCEPT !.api_key = "sk",
                                                       !.dot_source = Some(kept),
                                                       !.repo_name = OctoCat]]
    /\ clock = 1
    /\ render_call = NoCall
    /\ html = NoHtml
    /\ dot_in = <<>>
    /\ dot_mid = <<>>
    /\ dot_out = <<>>
    /\ dot_op = "none"
    /\ config = NewConfig([gemini |-> "", openai |-> "", elevenlabs |-> ""])
    /\ ui_op = "none"
    /\ saved_keys = {}
    /\ pending_run = NotRunning
    /\ DownloadIdle /\ ZipIdle /\ HistoryIdle

\* process_pending_request without a pending request (app.py 294-317)
PageLoad ==
    /\ \E gv \in BOOLEAN, ok \in BOOLEAN :
       \E session \in {LoadSessionState(session_file)} :
          IF Truthy(session.dot_source)
          THEN \E c \in {RenderOnly(session.dot_source[1], DefaultLayout,
                                    session.repo_name, clock, gv, ok)} :
               \E r \in {RenderResult(diagrams_dir, c)} :
                  /\ render_call' = c
                  /\ html' = r.html
                  /\ diagrams_dir' = r.dir
                  /\ dot_in' = session.dot_source[1]
          ELSE /\ render_call' = NoCall
               /\ html' = EmptyStateHtml
               /\ dot_in' = <<>>
               /\ UNCHANGED diagrams_dir
    /\ dot_op' = "page_load"
    /\ UNCHANGED <<dot_mid, dot_out, clock, sessionVars, downloadVars, zipVars, historyVars>>

\* a click on "Apply layout"
ClickApplyLayout ==
    /\ \E layout \in Layouts, gv \in BOOLEAN, ok \in BOOLEAN :
       \E r \in {ApplyLayoutClick(diagrams_dir, dot_in, layout, clock, gv, ok)} :
          /\ render_call' = r.call
          /\ html' = r.html
          /\ diagrams_dir' = r.dir
          /\ dot_in' = r.current_dot
    /\ dot_op' = "apply_layout"
    /\ UNCHANGED <<dot_mid, dot_out, clock, sessionVars, downloadVars, zipVars, historyVars>>

\* load_from_history (app.py 439-473, diagram.py 427-455)
ClickLoadFromHistory ==
    /\ \E selected \in HistoryChoices(diagrams_dir), gv \in BOOLEAN, ok \in BOOLEAN :
          IF selected \notin DOMAIN diagrams_dir
          THEN /\ render_call' = NoCall
               /\ html' = PageErrorHtml
               /\ dot_in' = <<>>
               /\ UNCHANGED diagrams_dir
          ELSE \E c \in {RenderOnly(diagrams_dir[selected], DefaultLayout,
                                    OctoCat, clock, gv, ok)} :
               \E r \in {RenderResult(diagrams_dir, c)} :
                  /\ render_call' = c
                  /\ html' = r.html
                  /\ diagrams_dir' = r.dir
                  /\ dot_in' = diagrams_dir[selected]
    /\ dot_op' = "load_from_history"
    /\ UNCHANGED <<dot_mid, dot_out, clock, sessionVars, downloadVars, zipVars, historyVars>>

\* the end of an analysis that succeeded (app.py 383-423): the session
\* keeps the source and render saves it to the history
FinishAnalysis ==
    /\ clock <= MaxAnalyses
    /\ \E content \in PageDiagrams :
       \E c \in {[op |-> "render", dot_source |-> content, layout |-> DefaultLayout,
                  repo_name |-> OctoCat, save_to_history |-> TRUE,
                  metadata |-> SampleMetadata, now |-> clock, io |-> "ok",
                  graphviz_available |-> TRUE, renderer_ok |-> TRUE]} :
       \E r \in {RenderResult(diagrams_dir, c)} :
          /\ session_file' =
                 SaveSessionState(session_file,
                     [dot_source |-> Some(content), repo_name |-> OctoCat,
                      stats |-> SampleStats, model |-> DefaultModel], "ok")
          /\ render_call' = c
          /\ html' = r.html
          /\ diagrams_dir' = r.dir
          /\ dot_in' = content
    /\ clock' = clock + 1
    /\ dot_op' = "process_pending_request"
    /\ UNCHANGED <<dot_mid, dot_out, config, ui_op, saved_keys, pending_run,
                   downloadVars, zipVars, historyVars>>

NextPage == PageLoad \/ ClickApplyLayout \/ ClickLoadFromHistory \/ FinishAnalysis

SpecPage == InitPage /\ [][NextPage]_vars

PadDeclaration == <<"p", "a", "d", "=", "0", ".", "5", ";">>

\* C26: a page load without a pending request, a layout change and a load
\* from the history create, change and delete no file of the diagrams
\* directory and leave the session file as it is; a layout change leaves
\* the source the page keeps as it is; and a diagram that is drawn has the
\* injected declarations once.
C26_RenderOnlyKeepsTheSource ==
    [][dot_op' \in {"page_load", "apply_layout", "load_from_history"} =>
           /\ diagrams_dir' = diagrams_dir
           /\ session_file' = session_file
           /\ dot_op' = "apply_layout" => dot_in' = dot_in
           /\ ~Contains(dot_in', PadDeclaration)
           /\ html'.kind = "diagram" =>
                 /\ CountOf(html'.text, PadDeclaration) = 1
                 /\ Cardinality(DeclarationsOf(html'.text, KwRankdir)) = 1]_vars

\* a second layout change, to ortho, of a diagram with its own direction,
\* with a diagram in the history: drawn with the direction LR of the layout
C26_LayoutChangedTwice ==
    /\ dot_op = "apply_layout"
    /\ dot_in = DirectedDot
    /\ html.kind = "diagram"
    /\ render_call.layout = OrthoLayout
    /\ Contains(html.text, KwSplines \o <<"=">> \o KwOrtho)
    /\ DOMAIN diagrams_dir # {}

-----------------------------------------------------------------------------
(* _count_nodes_edges (diagram.py 297-330) on edge statements with one and *)
(* with several hops.  The source is made of up to MaxChainTokens pieces.  *)

MaxChainTokens == 5

QuotedName == <<QUOTE, "x", " ", "y", QUOTE>>

ChainTokens ==
    {<<"A">>, <<"B">>, <<"C">>, <<" ", "-", ">", " ">>, QuotedName, <<"7">>,
     <<"n", "o", "d", "e">>, <<NL>>}

InitChain ==
    /\ \E ts \in SeqsUpTo(ChainTokens, MaxChainTokens) : dot_in = Flatten(ts)
    /\ dot_mid = <<>>
    /\ dot_out = <<>>
    /\ dot_op = "none"
    /\ RenderIdle
    /\ OutsideDiagramIdle

\* _count_nodes_edges(dot_content)
CallCountChain ==
    /\ dot_op = "none"
    /\ dot_out' = CountNodesEdges(dot_in)
    /\ dot_mid' = NodeSet(dot_in)
    /\ dot_op' = "count_nodes_edges"
    /\ UNCHANGED dot_in
    /\ UNCHANGED renderVars
    /\ UNCHANGED outsideDiagram

NextChain == CallCountChain

SpecChain == InitChain /\ [][NextChain]_vars

\* the node-name token that ends right before position i of s, blanks
\* apart: <<first, last>> of its characters (the quotes of a quoted name
\* included), <<0, 0>> if there is none
TokenBefore(s, i) ==
    LET solid == {j \in 1..(i - 1) : s[j] \notin Whitespace}
        last == IF solid = {} THEN 0 ELSE MaxOf(solid)
        opening == {k \in 1..(last - 2) : s[k] = QUOTE
                       /\ \A m \in (k + 1)..(last - 1) : s[m] # QUOTE}
        breaks == {k \in 1..last : s[k] \notin WordChars}
    IN  IF last = 0 THEN <<0, 0>>
        ELSE IF s[last] = QUOTE
        THEN IF opening = {} THEN <<0, 0>> ELSE <<MaxOf(opening), last>>
        ELSE IF s[last] \in WordChars
        THEN <<IF breaks = {} THEN 1 ELSE MaxOf(breaks) + 1, last>>
        ELSE <<0, 0>>

\* the node-name token that starts at or after position i of s, blanks apart
TokenAfter(s, i) ==
    LET solid == {j \in i..Len(s) : s[j] \notin Whitespace}
        first == IF solid = {} THEN 0 ELSE MinOf(solid)
        closing == {k \in (first + 2)..Len(s) : s[k] = QUOTE
                       /\ \A m \in (first + 1)..(k - 1) : s[m] # QUOTE}
        breaks == {k \in first..Len(s) : s[k] \notin WordChars}
    IN  IF first = 0 THEN <<0, 0>>
        ELSE IF s[first] = QUOTE
        THEN IF closing = {} THEN <<0, 0>> ELSE <<first, MinOf(closing)>>
        ELSE IF s[first] \in WordChars
        THEN <<first, IF breaks = {} THEN Len(s) ELSE MinOf(breaks) - 1>>
        ELSE <<0, 0>>

\* the positions of the operators "->" of s that stand between two node-name
\* tokens
Hops(s) ==
    {i \in 1..(Len(s) - 1) :
        /\ s[i] = "-" /\ s[i + 1] = ">"
        /\ TokenBefore(s, i)[1] > 0
        /\ TokenAfter(s, i + 2)[1] > 0}

\* the name a token stands for: what is between the quotes, or the word
NameOf(s, span) ==
    IF s[span[1]] = QUOTE THEN SubSeq(s, span[1] + 1, span[2] - 1)
    ELSE SubSeq(s, span[1], span[2])

\* the endpoints of the hops of s that are neither keywords nor numbers
HopEndpoints(s) ==
    {name \in {NameOf(s, TokenBefore(s, i)) : i \in Hops(s)}
              \cup {NameOf(s, TokenAfter(s, i + 2)) : i \in Hops(s)} :
        /\ name # <<>>
        /\ LowerCased(name) \notin Keywords
        /\ \E k \in 1..Len(name) : name[k] \notin Digits}

\* C27: the edge count of _count_nodes_edges is the number of operators
\* "->" between two node-name tokens, every hop of a chain counted, and the
\* endpoints of these hops that are neither keywords nor numbers are in
\* the node set.
C27_EveryHopCounted ==
    dot_op = "count_nodes_edges" =>
        /\ dot_out[2] = Cardinality(Hops(dot_in))
        /\ HopEndpoints(dot_in) \subseteq dot_mid

\* the same for the sources in which no node is the end of one hop and the
\* start of the next
C27_SingleHopsCounted ==
    (dot_op = "count_nodes_edges"
        /\ \A i, j \in Hops(dot_in) :
              i < j => TokenAfter(dot_in, i + 2) # TokenBefore(dot_in, j)) =>
        /\ dot_out[2] = Cardinality(Hops(dot_in))
        /\ HopEndpoints(dot_in) \subseteq dot_mid

-----------------------------------------------------------------------------
(* Loads of the explore page after start_analysis has stored a request     *)
(* (app.py 148-171, 292-428).  dl_log lists the runs that went past the    *)
(* API-key check, each with the request it took from the session file and  *)
(* with what save_session_state returned for the clearing of line 340.     *)

MaxPageRuns == 2

\* the session files start_analysis leaves: a Gemini key is stored, an
\* OpenAI key may be
StoredRequests ==
    {SaveSessionState(
         [exists |-> TRUE,
          data |-> [DefaultSession EXCEPT !.api_key = "sk", !.openai_api_key = key]],
         StartAnalysisData(source[1], source[2], model), "ok") :
        key \in {"", "sk"},
        source \in {<<None, Some(GithubUrl)>>, <<Some(UploadPath), None>>},
        model \in ModelChoices}

InitPending ==
    /\ session_file \in StoredRequests
    /\ config = NewConfig([gemini |-> "", openai |-> "", elevenlabs |-> ""])
    /\ ui_op = "none"
    /\ saved_keys = {}
    /\ pending_run = NotRunning
    /\ dl_url = <<>>
    /\ dl_pc = "idle"
    /\ dl_log = <<>>
    /\ dl_result = NoDownloadResult
    /\ TextIdle /\ RenderIdle /\ ZipIdle /\ HistoryIdle

\* a load of the explore page, process_pending_request up to the download
\* (app.py 292-344)
LoadPage ==
    /\ pending_run = NotRunning
    /\ Len(dl_log) < MaxPageRuns
    /\ \E io \in WriteOutcomes :
       \E session \in {LoadSessionState(session_file)} :
          IF HasPending(session) /\ RequestApiKey(session) # ""
          THEN /\ session_file' =
                      SaveSessionState(session_file, [pending_request |-> None], io)
               /\ saved_keys' = {"pending_request"}
               /\ pending_run' =
                      [pc |-> "running",
                       pending |-> session.pending_request[1],
                       model_choice |-> DictGet(session, "model", DefaultModel)]
               /\ dl_log' = Append(dl_log, [request |-> session.pending_request[1],
                                            cleared |-> io = "ok"])
          ELSE /\ UNCHANGED <<session_file, pending_run, dl_log>>
               /\ saved_keys' = {}
    /\ ui_op' = "process_pending_request"
    /\ UNCHANGED <<config, dl_url, dl_pc, dl_result>>
    /\ UNCHANGED <<textVars, renderVars, zipVars, historyVars>>

NextPending == LoadPage \/ ProcessPendingFinish \/ SaveSettings

SpecPending == InitPending /\ [][NextPending]_vars

\* C28: the request start_analysis stored is run by at most one load of the
\* page: a run that is past the API-key check has cleared pending_request
\* in the session file, and while no run has started the request is still
\* stored.
C28_PendingRunsAtMostOnce ==
    /\ Len(dl_log) <= 1
    /\ pending_run # NotRunning => ~HasPending(LoadSessionState(session_file))
    /\ dl_log = <<>> => HasPending(LoadSessionState(session_file))

\* the same while save_session_state has returned True for every clearing
C28_ClearedRunsAtMostOnce ==
    (\A k \in 1..Len(dl_log) : dl_log[k].cleared) =>
        /\ Len(dl_log) <= 1
        /\ pending_run # NotRunning => ~HasPending(LoadSessionState(session_file))
        /\ dl_log = <<>> => HasPending(LoadSessionState(session_file))

-----------------------------------------------------------------------------
(* Two handlers in save_session_state at the same time (app.py 56-86; the  *)
(* server takes up to 50 requests at once, modal_app.py 46).  A call has   *)
(* three steps: load_session_state reads the file, open(..., "w") empties  *)
(* it, json.dump writes the merged dictionary.  A file that is empty when  *)
(* it is read does not parse, and load_session_state returns the defaults. *)

IdleSaver ==
    [pc |-> "idle", data |-> NoDict, existing |-> NoDict, returned |-> FALSE,
     after_other |-> FALSE]

EmptiedFile == [exists |-> TRUE, data |-> NoDict]

\* load_session_state on a file that another call may have just opened
ReadSessionFile(file) ==
    IF file.exists /\ file.data # NoDict THEN file.data ELSE DefaultSession

OtherSaver(w) == CHOOSE o \in Writers : o # w

\* what the two handlers save: the model of the dropdown (app.py 577), and
\* the cleared request (340) or the keys of the settings page (641-645)
SavedByFirst == {[model |-> m] : m \in ModelChoices}
SavedBySecond ==
    {[pending_request |-> None],
     [api_key |-> "sk2", openai_api_key |-> "", elevenlabs_api_key |-> "el"]}

InitSavers ==
    /\ session_file \in StoredRequests \cup EarlierFiles
    /\ \E first \in SavedByFirst, second \in SavedBySecond :
          writers = [w \in Writers |->
                        [IdleSaver EXCEPT !.data = IF w = "w1" THEN first ELSE second]]
    /\ history_list = <<>>
    /\ config = NewConfig([gemini |-> "", openai |-> "", elevenlabs |-> ""])
    /\ ui_op = "none"
    /\ saved_keys = {}
    /\ pending_run = NotRunning
    /\ TextIdle /\ RenderIdle /\ DownloadIdle /\ ZipIdle

\* existing = load_session_state(); existing.update(data)  (lines 79-80)
SaverReads(w) ==
    /\ writers[w].pc = "idle"
    /\ writers' = [writers EXCEPT
                      ![w].pc = "read",
                      ![w].existing = DictUpdate(ReadSessionFile(session_file),
                                                 writers[w].data),
                      ![w].after_other = writers[OtherSaver(w)].pc = "done"]
    /\ UNCHANGED <<session_file, config, ui_op, saved_keys, pending_run, history_list>>
    /\ UNCHANGED <<textVars, renderVars, downloadVars, zipVars>>

\* open(SESSION_FILE, "w")  (line 81): the file is emptied, or the call
\* fails and save_session_state returns False (84-86)
SaverOpens(w) ==
    /\ writers[w].pc = "read"
    /\ \E io \in WriteOutcomes :
          IF io = "ok"
          THEN /\ session_file' = EmptiedFile
               /\ writers' = [writers EXCEPT ![w].pc = "opened"]
          ELSE /\ UNCHANGED session_file
               /\ writers' = [writers EXCEPT ![w].pc = "done", ![w].returned = FALSE]
    /\ UNCHANGED <<config, ui_op, saved_keys, pending_run, history_list>>
    /\ UNCHANGED <<textVars, renderVars, downloadVars, zipVars>>

\* json.dump(existing, f); return True  (lines 82-83)
SaverDumps(w) ==
    /\ writers[w].pc = "opened"
    /\ session_file' = [exists |-> TRUE, data |-> writers[w].existing]
    /\ writers' = [writers EXCEPT ![w].pc = "done", ![w].returned = TRUE]
    /\ UNCHANGED <<config, ui_op, saved_keys, pending_run, history_list>>
    /\ UNCHANGED <<textVars, renderVars, downloadVars, zipVars>>

NextSavers == \E w \in Writers : SaverReads(w) \/ SaverOpens(w) \/ SaverDumps(w)

SpecSavers == InitSavers /\ [][NextSavers]_vars

\* the file has the values the call of w saved
HoldsSaved(w) ==
    /\ session_file.exists
    /\ session_file.data # NoDict
    /\ \A k \in DOMAIN writers[w].data :
          /\ k \in DOMAIN session_file.data
          /\ session_file.data[k] = writers[w].data[k]

\* C29: when two calls of save_session_state with disjoint keys have both
\* returned True, in whatever order their steps were taken, the session
\* file has the values of both.
C29_BothSavesKept ==
    (\A w \in Writers : writers[w].pc = "done" /\ writers[w].returned) =>
        \A w \in Writers : HoldsSaved(w)

\* the same when one call read the file after the other had returned
C29_SavesInTurnKept ==
    (/\ \A w \in Writers : writers[w].pc = "done" /\ writers[w].returned
     /\ \E w \in Writers : writers[w].after_other) =>
        \A w \in Writers : HoldsSaved(w)

-----------------------------------------------------------------------------
(* get_history with a limit that the directory can reach (diagram.py       *)
(* 332-389): up to MaxLimitFiles saved diagrams, the files that are always *)
(* there, and at most one other file whose name starts with raw_ and ends  *)
(* with .dot but has no date and time.                                     *)

MaxLimitFiles == 2

SmallLimits == {1, 2}

RawMyNotesDot ==
    <<"r", "a", "w", "_", "m", "y", "_", "n", "o", "t", "e", "s", ".", "d", "o", "t">>

LimitSaves == {<<>>, OctoCat, OctoDraw} \X {1, 2, SecondsPerDay}

LimitDirectories ==
    UNION {{DirectoryOf(saved, [d \in saved |-> "none"]),
            WriteFile(DirectoryOf(saved, [d \in saved |-> "none"]), RawMyNotesDot, SampleDot)} :
           saved \in {s \in SUBSET LimitSaves : Cardinality(s) <= MaxLimitFiles}}

InitLimit ==
    /\ diagrams_dir \in LimitDirectories
    /\ clock = 0
    /\ render_call = NoCall
    /\ html = NoHtml
    /\ history_list = <<>>
    /\ writers = <<>>
    /\ TextIdle
    /\ SessionIdle
    /\ DownloadIdle
    /\ ZipIdle

\* get_history(limit); iterdir gives the files in any order
CallGetHistoryLimited ==
    /\ render_call = NoCall
    /\ \E order \in OrdersOf(NamesWithSuffix(diagrams_dir, DotSuffix)),
          limit \in SmallLimits :
          /\ render_call' = [op |-> "get_history", order |-> order,
                             unreadable |-> {}, limit |-> limit]
          /\ history_list' = GetHistory(diagrams_dir, order, {}, limit)
    /\ UNCHANGED outsideListing

NextLimit == CallGetHistoryLimited

SpecLimit == InitLimit /\ [][NextLimit]_vars

\* the date and the time at the end of the name of a saved diagram
StampOf(f) == SubSeq(f, Len(f) - 18, Len(f) - 4)

\* the list has min(limit, V) entries, each of another well-formed file and
\* with the timestamp of its name, and no well-formed file that is left out
\* is newer than one that is listed
ListsTheNewest(list, dir, limit) ==
    LET V == {f \in DOMAIN dir : IsSavedDiagramName(f)}
    IN  /\ Len(list) = IF Cardinality(V) < limit THEN Cardinality(V) ELSE limit
        /\ \A i \in 1..Len(list) :
              /\ list[i].filename \in V
              /\ list[i].timestamp = StampOf(list[i].filename)
              /\ \A j \in 1..Len(list) : i # j => list[i].filename # list[j].filename
              /\ \A f \in V :
                    (\A j \in 1..Len(list) : list[j].filename # f) =>
                        ~TextLess(list[i].timestamp, StampOf(f))

\* C30: get_history(limit) returns the min(limit, V) newest well-formed
\* entries, V the number of raw_*.dot files whose name ends in a date and a
\* time, each once and with the timestamp of its name; a file with a
\* malformed name takes no place.
C30_NewestWellFormedListed ==
    render_call.op = "get_history" =>
        ListsTheNewest(history_list, diagrams_dir, render_call.limit)

\* the same for the directories whose labels have no "raw_" inside and
\* whose other files have no "_" after the prefix
C30_PlainNamesListed ==
    (render_call.op = "get_history"
        /\ RawMyNotesDot \notin DOMAIN diagrams_dir
        /\ \A f \in DOMAIN diagrams_dir :
              \A i \in 2..(Len(f) - 3) : SubSeq(f, i, i + 3) # RawUnderscore) =>
        ListsTheNewest(history_list, diagrams_dir, render_call.limit)

====
